---- MODULE Spec2Model ----
(***************************************************************************)
(* Rules / turn engine of the four-player resource card game.              *)
(*                                                                         *)
(*   services/gameLogic.ts : generateHand, createPlayers, validateMove,    *)
(*                           getAIMove, getAIDealerRequirement,            *)
(*                           getCombinations, mashCard                     *)
(*   App (second revision) : the React component that owns the game state  *)
(*                           and its handlers and effects                  *)
(*                                                                         *)
(* Random draws (Math.random()) are inputs of the actions.  A draw r in    *)
(* [0,1) is represented by the integer floor(100 * r) in 0..99, and the    *)
(* probability thresholds of the source by the same scale (0.15 -> 15).    *)
(***************************************************************************)
EXTENDS Integers, Sequences, FiniteSets, TLC

(***************************************************************************)
(* Types (types.ts)                                                        *)
(***************************************************************************)

\* enum ResourceType, in declaration order (the order of Object.values).
ResourceTypes == <<"Soldier", "Tower", "Farm", "Ore">>

ResourceTypeSet == {ResourceTypes[i] : i \in 1..Len(ResourceTypes)}

\* enum RequirementType.
SINGLE_FIXED == "SINGLE_FIXED"

SINGLE_ASC == "SINGLE_ASC"

MIXED_ASC == "MIXED_ASC"

\* A RoundRequirement without resourceType (the field is optional).
NoType == "none"

\* roundRequirement = null.
NoReq == [type |-> "none", resourceType |-> NoType, count |-> 0]

\* lastPlayed = null.
NoPlay == [playerId |-> "none", cards |-> <<>>]

\* getAIMove returning null.
NoMove == <<>>

\* Card levels: getRandomInt(1, 7), Math.min(7, ...), Math.max(1, ...).
MinLevel == 1

MaxLevel == 7

(***************************************************************************)
(* constants.ts                                                            *)
(***************************************************************************)

PLAYERS_COUNT == 4

\* MASH_PROBABILITIES, in hundredths.
MASH_SAME == 80

MASH_WORSE == 5

MASH_BETTER == 15

(***************************************************************************)
(* Sequence helpers for the array methods the source uses                  *)
(***************************************************************************)

\* array.filter(keep), for a predicate given as the set of kept positions.
RECURSIVE FilterIdx(_, _, _)
FilterIdx(s, keep, i) ==
  IF i > Len(s) THEN <<>>
  ELSE (IF i \in keep THEN <<s[i]>> ELSE <<>>) \o FilterIdx(s, keep, i + 1)

\* array.reduce((sum, c) => sum + c.level, 0)
RECURSIVE calculateHandValue(_)
calculateHandValue(hand) ==
  IF hand = <<>> THEN 0 ELSE Head(hand).level + calculateHandValue(Tail(hand))

\* Insert x into the sorted sequence s after every element that is not greater
\* (a stable insertion), for numbers.
RECURSIVE InsertNum(_, _)
InsertNum(x, s) ==
  IF s = <<>> THEN <<x>>
  ELSE IF x < Head(s) THEN <<x>> \o s
  ELSE <<Head(s)>> \o InsertNum(x, Tail(s))

\* levels.sort((a, b) => a - b)
RECURSIVE SortNums(_)
SortNums(s) ==
  IF s = <<>> THEN <<>>
  ELSE InsertNum(s[Len(s)], SortNums(SubSeq(s, 1, Len(s) - 1)))

\* cards.map(c => c.level)
Levels(cards) == [i \in 1..Len(cards) |-> cards[i].level]

(***************************************************************************)
(* validateMove (gameLogic.ts)                                             *)
(***************************************************************************)

\* 1. Check Count: selectedCards.length !== req.count
WrongCount(selectedCards, req) == Len(selectedCards) # req.count

\* 2. Check Type Requirement: selectedCards.find(c => c.type !== req.resourceType)
WrongType(selectedCards, req) ==
  /\ req.type \in {SINGLE_FIXED, SINGLE_ASC}
  /\ \E i \in 1..Len(selectedCards) : selectedCards[i].type # req.resourceType

NotAscending_allowEqual(selectedCards, req) ==
  /\ req.type \in {SINGLE_ASC, MIXED_ASC}
  /\ LET levels == SortNums(Levels(selectedCards))
     IN  \E i \in 1..(Len(levels) - 1) : levels[i] > levels[i + 1]

\* 3. Check Ascending Logic: the levels are sorted, then levels[i] >= levels[i+1]
\*    for some adjacent pair rejects.
NotAscending(selectedCards, req) ==
  /\ req.type \in {SINGLE_ASC, MIXED_ASC}
  /\ LET levels == SortNums(Levels(selectedCards))
     IN  \E i \in 1..(Len(levels) - 1) : levels[i] >= levels[i + 1]

BelowLast_strict(selectedCards, lastPlayed) ==
  /\ lastPlayed # NoPlay
  /\ calculateHandValue(selectedCards) <= calculateHandValue(lastPlayed.cards)

\* 4. Compare with Last Played: currentSum < lastSum rejects.
BelowLast(selectedCards, lastPlayed) ==
  /\ lastPlayed # NoPlay
  /\ calculateHandValue(selectedCards) < calculateHandValue(lastPlayed.cards)

Accept == [valid |-> TRUE, reason |-> "ok"]

Reject(reason) == [valid |-> FALSE, reason |-> reason]

validateMove_typeFirst(selectedCards, lastPlayed, req) ==
  IF req = NoReq THEN Reject("no requirement")
  ELSE IF WrongType(selectedCards, req) THEN Reject("wrong resource type")
  ELSE IF WrongCount(selectedCards, req) THEN Reject("wrong count")
  ELSE IF NotAscending(selectedCards, req) THEN Reject("not strictly increasing")
  ELSE IF BelowLast(selectedCards, lastPlayed) THEN Reject("below previous total")
  ELSE Accept

validateMove(selectedCards, lastPlayed, req) ==
  IF req = NoReq THEN Reject("no requirement")
  ELSE IF WrongCount(selectedCards, req) THEN Reject("wrong count")
  ELSE IF WrongType(selectedCards, req) THEN Reject("wrong resource type")
  ELSE IF NotAscending(selectedCards, req) THEN Reject("not strictly increasing")
  ELSE IF BelowLast(selectedCards, lastPlayed) THEN Reject("below previous total")
  ELSE Accept

(***************************************************************************)
(* getCombinations, getAIMove (gameLogic.ts)                               *)
(***************************************************************************)

\* backtrack(start, current) and its for loop from index i on; the result is
\* the sequence of combinations in the order result.push is called.
RECURSIVE backtrack(_, _, _, _), backtrackLoop(_, _, _, _)
backtrackLoop(array, size, i, current) ==
  IF i > Len(array) THEN <<>>
  ELSE backtrack(array, size, i + 1, Append(current, array[i]))
         \o backtrackLoop(array, size, i + 1, current)

backtrack(array, size, start, current) ==
  IF Len(current) = size THEN <<current>>
  ELSE backtrackLoop(array, size, start, current)

getCombinations(array, size) == backtrack(array, size, 1, <<>>)

candidateCards_otherType(hand, req) ==
  IF req.type \in {SINGLE_FIXED, SINGLE_ASC}
    THEN FilterIdx(hand, {i \in 1..Len(hand) : hand[i].type # req.resourceType}, 1)
    ELSE hand

\* candidateCards: the hand, filtered by resource type for the single-type kinds.
candidateCards(hand, req) ==
  IF req.type \in {SINGLE_FIXED, SINGLE_ASC}
    THEN FilterIdx(hand, {i \in 1..Len(hand) : hand[i].type = req.resourceType}, 1)
    ELSE hand

\* combinations.filter(combo => validateMove(combo, lastPlayed, req).valid)
validMoves(combinations, lastPlayed, req) ==
  FilterIdx(combinations,
            {i \in 1..Len(combinations) :
               validateMove(combinations[i], lastPlayed, req).valid}, 1)

\* Insertion before the moves of equal level sum.
RECURSIVE InsertMove_beforeEqual(_, _)
InsertMove_beforeEqual(m, s) ==
  IF s = <<>> THEN <<m>>
  ELSE IF calculateHandValue(m) <= calculateHandValue(Head(s)) THEN <<m>> \o s
  ELSE <<Head(s)>> \o InsertMove_beforeEqual(m, Tail(s))

\* Stable insertion of a move among moves sorted by level sum.
RECURSIVE InsertMove(_, _)
InsertMove(m, s) ==
  IF s = <<>> THEN <<m>>
  ELSE IF calculateHandValue(m) < calculateHandValue(Head(s)) THEN <<m>> \o s
  ELSE <<Head(s)>> \o InsertMove(m, Tail(s))

sortMoves_unsorted(moves) == moves

\* validMoves.sort((a, b) => sumA - sumB): a stable sort by level sum.
RECURSIVE sortMoves(_)
sortMoves(moves) ==
  IF moves = <<>> THEN <<>>
  ELSE InsertMove(moves[Len(moves)], sortMoves(SubSeq(moves, 1, Len(moves) - 1)))

getAIMove(hand, lastPlayed, req) ==
  IF req = NoReq THEN NoMove
  ELSE LET valid == validMoves(getCombinations(candidateCards(hand, req), req.count),
                               lastPlayed, req)
       IN  IF Len(valid) = 0 THEN NoMove ELSE sortMoves(valid)[1]

(***************************************************************************)
(* mashCard (gameLogic.ts)                                                 *)
(***************************************************************************)

Min(a, b) == IF a < b THEN a ELSE b

Max(a, b) == IF a > b THEN a ELSE b

mashCard_unclamped(card, rand) ==
  [card EXCEPT !.level =
     IF rand < MASH_BETTER THEN card.level + 1
     ELSE IF rand < MASH_BETTER + MASH_WORSE THEN card.level - 1
     ELSE card.level]

\* rand is the draw of Math.random(), in hundredths.
mashCard(card, rand) ==
  [card EXCEPT !.level =
     IF rand < MASH_BETTER THEN Min(MaxLevel, card.level + 1)
     ELSE IF rand < MASH_BETTER + MASH_WORSE THEN Max(MinLevel, card.level - 1)
     ELSE card.level]

(***************************************************************************)
(* generateHand, createPlayers (gameLogic.ts)                              *)
(***************************************************************************)

PlayerIds == <<"P1", "P2", "P3", "P4">>

\* a.type.localeCompare(b.type) orders the type names alphabetically.
TypeRank(t) ==
  CASE t = "Farm" -> 1 [] t = "Ore" -> 2 [] t = "Soldier" -> 3 [] t = "Tower" -> 4

\* The comparator of hand.sort is negative: a sorts before b.
CardBefore(a, b) ==
  IF a.type = b.type THEN a.level < b.level ELSE TypeRank(a.type) < TypeRank(b.type)

RECURSIVE InsertCard(_, _)
InsertCard(x, s) ==
  IF s = <<>> THEN <<x>>
  ELSE IF CardBefore(x, Head(s)) THEN <<x>> \o s
  ELSE <<Head(s)>> \o InsertCard(x, Tail(s))

RECURSIVE SortHand(_)
SortHand(s) ==
  IF s = <<>> THEN <<>>
  ELSE InsertCard(s[Len(s)], SortHand(SubSeq(s, 1, Len(s) - 1)))

\* The forEach over the resource types from type number t on: draw[t] is the
\* sequence of levels drawn for that type (its length is the count drawn), and
\* generateId() yields the fresh ids idBase + 1, idBase + 2, ...
RECURSIVE pushCards(_, _, _)
pushCards(draw, t, idBase) ==
  IF t > Len(ResourceTypes) THEN <<>>
  ELSE [k \in 1..Len(draw[t]) |->
          [id |-> idBase + k, type |-> ResourceTypes[t], level |-> draw[t][k]]]
         \o pushCards(draw, t + 1, idBase + Len(draw[t]))

generateHand(draw, idBase) == SortHand(pushCards(draw, 1, idBase))

\* Ids of player i's cards start after this number.
IdBase(i) == 10 * i

createPlayers(draws) ==
  [i \in 1..4 |->
     [id |-> PlayerIds[i], isHuman |-> (i = 1), hand |-> generateHand(draws[i], IdBase(i)),
      medals |-> 0, passedThisRound |-> FALSE]]

(***************************************************************************)
(* getAIDealerRequirement (gameLogic.ts)                                   *)
(***************************************************************************)

\* rand > 0.8, rand > 0.6, in hundredths.
MixedAscThreshold == 80

SingleAscThreshold == 60

\* counts[t]: player.hand.forEach(c => counts[c.type]++)
CountOfType(hand, t) == Cardinality({i \in 1..Len(hand) : hand[i].type = t})

\* The forEach over Object.keys(counts) from type number t on.
RECURSIVE scanBest(_, _, _)
scanBest(hand, t, best) ==
  IF t > Len(ResourceTypes) THEN best
  ELSE IF CountOfType(hand, ResourceTypes[t]) > best.maxCount
    THEN scanBest(hand, t + 1, [bestType |-> ResourceTypes[t],
                                maxCount |-> CountOfType(hand, ResourceTypes[t])])
    ELSE scanBest(hand, t + 1, best)

\* getAIDealerRequirement with rand >= 0.8 and rand >= 0.6.
getAIDealerRequirement_inclusive(hand, rand) ==
  LET best == scanBest(hand, 1, [bestType |-> "Soldier", maxCount |-> -1])
      type == IF rand >= MixedAscThreshold /\ Len(hand) >= 3 THEN MIXED_ASC
              ELSE IF rand >= SingleAscThreshold /\ best.maxCount >= 2 THEN SINGLE_ASC
              ELSE SINGLE_FIXED
      count == IF type = MIXED_ASC THEN 3 ELSE Min(best.maxCount, 2)
  IN  [type |-> type, resourceType |-> best.bestType, count |-> Max(1, count)]

getAIDealerRequirement(hand, rand) ==
  LET best == scanBest(hand, 1, [bestType |-> "Soldier", maxCount |-> -1])
      type == IF rand > MixedAscThreshold /\ Len(hand) >= 3 THEN MIXED_ASC
              ELSE IF rand > SingleAscThreshold /\ best.maxCount >= 2 THEN SINGLE_ASC
              ELSE SINGLE_FIXED
      count == IF type = MIXED_ASC THEN 3 ELSE Min(best.maxCount, 2)
  IN  [type |-> type, resourceType |-> best.bestType, count |-> Max(1, count)]

(***************************************************************************)
(* inferRequirement (App)                                                  *)
(***************************************************************************)

\* inferRequirement giving SINGLE_ASC to every single-type selection of two
\* cards or more.
inferRequirement_alwaysAsc(cards) ==
  IF Len(cards) = 0 THEN NoReq
  ELSE
    LET count == Len(cards)
        types == {cards[i].type : i \in 1..Len(cards)}
        levels == SortNums(Levels(cards))
        isStrictlyAscending == ~ \E i \in 1..(Len(levels) - 1) : levels[i] >= levels[i + 1]
    IN  IF Cardinality(types) = 1
          THEN IF count = 1
                 THEN [type |-> SINGLE_FIXED, resourceType |-> cards[1].type, count |-> count]
               ELSE IF isStrictlyAscending
                 THEN [type |-> SINGLE_ASC, resourceType |-> cards[1].type, count |-> count]
               ELSE [type |-> SINGLE_ASC, resourceType |-> cards[1].type, count |-> count]
        ELSE IF isStrictlyAscending
          THEN [type |-> MIXED_ASC, resourceType |-> NoType, count |-> count]
        ELSE NoReq

\* inferRequirement giving its MIXED_ASC requirement a resourceType.
inferRequirement_typed(cards) ==
  IF Len(cards) = 0 THEN NoReq
  ELSE
    LET count == Len(cards)
        types == {cards[i].type : i \in 1..Len(cards)}
        levels == SortNums(Levels(cards))
        isStrictlyAscending == ~ \E i \in 1..(Len(levels) - 1) : levels[i] >= levels[i + 1]
    IN  IF Cardinality(types) = 1
          THEN IF count = 1
                 THEN [type |-> SINGLE_FIXED, resourceType |-> cards[1].type, count |-> count]
               ELSE IF isStrictlyAscending
                 THEN [type |-> SINGLE_ASC, resourceType |-> cards[1].type, count |-> count]
               ELSE [type |-> SINGLE_FIXED, resourceType |-> cards[1].type, count |-> count]
        ELSE IF isStrictlyAscending
          THEN [type |-> MIXED_ASC, resourceType |-> cards[1].type, count |-> count]
        ELSE NoReq

inferRequirement(cards) ==
  IF Len(cards) = 0 THEN NoReq
  ELSE
    LET count == Len(cards)
        types == {cards[i].type : i \in 1..Len(cards)}
        levels == SortNums(Levels(cards))
        isStrictlyAscending == ~ \E i \in 1..(Len(levels) - 1) : levels[i] >= levels[i + 1]
    IN  IF Cardinality(types) = 1
          THEN IF count = 1
                 THEN [type |-> SINGLE_FIXED, resourceType |-> cards[1].type, count |-> count]
               ELSE IF isStrictlyAscending
                 THEN [type |-> SINGLE_ASC, resourceType |-> cards[1].type, count |-> count]
               ELSE [type |-> SINGLE_FIXED, resourceType |-> cards[1].type, count |-> count]
        ELSE IF isStrictlyAscending
          THEN [type |-> MIXED_ASC, resourceType |-> NoType, count |-> count]
        ELSE NoReq

(***************************************************************************)
(* The state of App: one variable per useState cell.  Player and card      *)
(* indices are 1-based here (the human, players[0] in the source, is       *)
(* players[1]).                                                            *)
(*                                                                         *)
(*   timer    the pending interval of the timer effect: whether it is      *)
(*            armed, and the render values its handleTurnTimeout closes    *)
(*            over                                                         *)
(*   aiTimer  the pending setTimeout of the AI effect, likewise, for       *)
(*            runAITurn                                                    *)
(*   ev       the last entry of logs, kept as a structured record of what  *)
(*            the last handler did                                         *)
(*   mashes   the number of level changes by mashing so far (bounded by    *)
(*            MaxMashes)                                                   *)
(*                                                                         *)
(* selectedCardIds is an input of the human's actions: while it is the     *)
(* human's turn handleToggleCard can make it any subset of the hand.       *)
(***************************************************************************)
VARIABLES players, phase, activePlayerIndex, dealerIndex, roundRequirement,
          tableStack, roundNumber, winner, mashCooldown, timer, aiTimer, ev, mashes,
          pFn, pCards, pLast, pReq, pRand, pDone, pValid, pMove, pCard

gameVars == <<players, phase, activePlayerIndex, dealerIndex, roundRequirement,
              tableStack, roundNumber, winner, mashCooldown, timer, aiTimer, ev, mashes>>

\* All of it but the two timers.
cellVars ==
  <<players, phase, activePlayerIndex, dealerIndex, roundRequirement,
    tableStack, roundNumber, winner, mashCooldown, ev, mashes>>

gameVarsButCooldown ==
  <<players, phase, activePlayerIndex, dealerIndex, roundRequirement,
    tableStack, roundNumber, winner, timer, aiTimer, ev, mashes>>

pureVars == <<pFn, pCards, pLast, pReq, pRand, pDone, pValid, pMove, pCard>>

vars == <<gameVars, pureVars>>

\* The useState cells a handler writes, as one record.
Cells ==
  [players |-> players, phase |-> phase, activePlayerIndex |-> activePlayerIndex,
   dealerIndex |-> dealerIndex, roundRequirement |-> roundRequirement,
   tableStack |-> tableStack, roundNumber |-> roundNumber, winner |-> winner, ev |-> ev]

\* The render values a handler created in that render closes over.
Closure(s) ==
  [players |-> s.players, phase |-> s.phase, activePlayerIndex |-> s.activePlayerIndex,
   roundRequirement |-> s.roundRequirement, tableStack |-> s.tableStack]

NoClosure ==
  [players |-> <<>>, phase |-> "none", activePlayerIndex |-> 0,
   roundRequirement |-> NoReq, tableStack |-> <<>>]

Disarmed == [armed |-> FALSE, c |-> NoClosure]

\* Log records.
NoSearch == [called |-> FALSE, hand |-> <<>>, last |-> NoPlay, req |-> NoReq, move |-> NoMove]

NoRoundEnd == [winner |-> "none", stackTop |-> "none", passed |-> <<>>]

NoMash == [cardId |-> 0, from |-> 0, to |-> 0, rand |-> 0]

\* No handleRoundEnd / handleGameEnd call in the handler.
NoEnded == [winner |-> "none", round |-> 0, players |-> <<>>]

NoGameEnd == [called |-> FALSE, winnerId |-> "none"]

Event(op, actor, under) ==
  [op |-> op, actor |-> actor, phase |-> under, applied |-> "none", cards |-> <<>>,
   scan |-> "none", search |-> NoSearch,
   roundEnd |-> NoRoundEnd, mash |-> NoMash, ended |-> NoEnded, gameEnd |-> NoGameEnd]

\* players.findIndex(p => p.id === playerId)
findIndex(ps, playerId) == CHOOSE i \in 1..Len(ps) : ps[i].id = playerId

\* prev.map(p => ({ ...p, passedThisRound: false }))
ResetPassed(ps) == [i \in 1..Len(ps) |-> [ps[i] EXCEPT !.passedThisRound = FALSE]]

\* tableStack.length > 0 ? tableStack[tableStack.length - 1] : null
Top(stack) == IF Len(stack) > 0 THEN stack[Len(stack)] ELSE NoPlay

NextIndex(i) == (i % PLAYERS_COUNT) + 1

(***************************************************************************)
(* Handlers.  A handler reads the render values c it closes over and       *)
(* transforms the pending cells s: setX(value) replaces a cell, setX(fn)   *)
(* applies fn to the cell's pending value.                                 *)
(***************************************************************************)

\* prev.map(p => p.id === winnerId ? { ...p, medals: p.medals + 1 } : p)
AwardMedal(ps, winnerId) ==
  [i \in 1..Len(ps) |->
     IF ps[i].id = winnerId THEN [ps[i] EXCEPT !.medals = @ + 1] ELSE ps[i]]

\* The log record of handleRoundEnd: the winner and the pending round number
\* and players array it is applied to.
EndedRecord(s, winnerId) ==
  [winner |-> winnerId, round |-> s.roundNumber, players |-> s.players]

\* The final reset written from the render's players array instead of the
\* pending one.
handleRoundEnd_overwrite(c, s, winnerId) ==
  [s EXCEPT
     !.ev.ended = EndedRecord(s, winnerId),
     !.players = ResetPassed(c.players),
     !.dealerIndex = findIndex(c.players, winnerId),
     !.activePlayerIndex = findIndex(c.players, winnerId),
     !.roundNumber = @ + 1,
     !.phase = "DEALER_SELECTION",
     !.roundRequirement = NoReq,
     !.tableStack = <<>>]

\* Entering the declared phase ROUND_END, which no handler leaves.
handleRoundEnd_roundEndPhase(c, s, winnerId) ==
  [s EXCEPT
     !.ev.ended = EndedRecord(s, winnerId),
     !.players = ResetPassed(AwardMedal(s.players, winnerId)),
     !.dealerIndex = findIndex(c.players, winnerId),
     !.activePlayerIndex = findIndex(c.players, winnerId),
     !.roundNumber = @ + 1,
     !.phase = "ROUND_END",
     !.roundRequirement = NoReq,
     !.tableStack = <<>>]

\* Without the final reset of passedThisRound.
handleRoundEnd_keepPassed(c, s, winnerId) ==
  [s EXCEPT
     !.ev.ended = EndedRecord(s, winnerId),
     !.players = AwardMedal(s.players, winnerId),
     !.dealerIndex = findIndex(c.players, winnerId),
     !.activePlayerIndex = findIndex(c.players, winnerId),
     !.roundNumber = @ + 1,
     !.phase = "DEALER_SELECTION",
     !.roundRequirement = NoReq,
     !.tableStack = <<>>]

\* Without clearing the table stack.
handleRoundEnd_keepStack(c, s, winnerId) ==
  [s EXCEPT
     !.ev.ended = EndedRecord(s, winnerId),
     !.players = ResetPassed(AwardMedal(s.players, winnerId)),
     !.dealerIndex = findIndex(c.players, winnerId),
     !.activePlayerIndex = findIndex(c.players, winnerId),
     !.roundNumber = @ + 1,
     !.phase = "DEALER_SELECTION",
     !.roundRequirement = NoReq]

handleRoundEnd(c, s, winnerId) ==
  [s EXCEPT
     !.ev.ended = EndedRecord(s, winnerId),
     !.players = ResetPassed(AwardMedal(s.players, winnerId)),
     !.dealerIndex = findIndex(c.players, winnerId),
     !.activePlayerIndex = findIndex(c.players, winnerId),
     !.roundNumber = @ + 1,
     !.phase = "DEALER_SELECTION",
     !.roundRequirement = NoReq,
     !.tableStack = <<>>]

\* [...currentPlayers].sort((a, b) => b.medals - a.medals)[0]: the first player
\* with the greatest medal count.
TopByMedals(ps) ==
  ps[CHOOSE i \in 1..Len(ps) :
       /\ \A j \in 1..Len(ps) : ps[j].medals <= ps[i].medals
       /\ \A j \in 1..(i - 1) : ps[j].medals < ps[i].medals]

\* The winner taken from the argument.
handleGameEnd_emptied(c, s, winnerId) ==
  [s EXCEPT !.phase = "GAME_END", !.winner = winnerId,
            !.ev.gameEnd = [called |-> TRUE, winnerId |-> winnerId]]

handleGameEnd(c, s, winnerId) ==
  [s EXCEPT !.phase = "GAME_END", !.winner = TopByMedals(s.players).id,
            !.ev.gameEnd = [called |-> TRUE, winnerId |-> winnerId]]

RECURSIVE scanTurn_ownerOnly(_, _, _, _)
scanTurn_ownerOnly(currentPlayers, lastStackItem, nextIndex, i) ==
  IF i >= PLAYERS_COUNT
    THEN [winnerFound |-> "none", foundNext |-> FALSE, nextIndex |-> nextIndex]
  ELSE IF lastStackItem # NoPlay /\ currentPlayers[nextIndex].id = lastStackItem.playerId
    THEN [winnerFound |-> currentPlayers[nextIndex].id, foundNext |-> FALSE,
          nextIndex |-> nextIndex]
  ELSE IF lastStackItem = NoPlay /\ ~ currentPlayers[nextIndex].passedThisRound
    THEN [winnerFound |-> "none", foundNext |-> TRUE, nextIndex |-> nextIndex]
  ELSE scanTurn_ownerOnly(currentPlayers, lastStackItem, NextIndex(nextIndex), i + 1)

\* The for loop with the passedThisRound test before the stack owner test.
RECURSIVE scanTurn_passedFirst(_, _, _, _)
scanTurn_passedFirst(currentPlayers, lastStackItem, nextIndex, i) ==
  IF i >= PLAYERS_COUNT
    THEN [winnerFound |-> "none", foundNext |-> FALSE, nextIndex |-> nextIndex]
  ELSE IF ~ currentPlayers[nextIndex].passedThisRound
    THEN [winnerFound |-> "none", foundNext |-> TRUE, nextIndex |-> nextIndex]
  ELSE IF lastStackItem # NoPlay /\ currentPlayers[nextIndex].id = lastStackItem.playerId
    THEN [winnerFound |-> currentPlayers[nextIndex].id, foundNext |-> FALSE,
          nextIndex |-> nextIndex]
  ELSE scanTurn_passedFirst(currentPlayers, lastStackItem, NextIndex(nextIndex), i + 1)

\* The for loop of advanceTurn, from iteration i with the given nextIndex.
RECURSIVE scanTurn(_, _, _, _)
scanTurn(currentPlayers, lastStackItem, nextIndex, i) ==
  IF i >= PLAYERS_COUNT
    THEN [winnerFound |-> "none", foundNext |-> FALSE, nextIndex |-> nextIndex]
  ELSE IF lastStackItem # NoPlay /\ currentPlayers[nextIndex].id = lastStackItem.playerId
    THEN [winnerFound |-> currentPlayers[nextIndex].id, foundNext |-> FALSE,
          nextIndex |-> nextIndex]
  ELSE IF ~ currentPlayers[nextIndex].passedThisRound
    THEN [winnerFound |-> "none", foundNext |-> TRUE, nextIndex |-> nextIndex]
  ELSE scanTurn(currentPlayers, lastStackItem, NextIndex(nextIndex), i + 1)

\* The log record of a round end decided by advanceTurn.
RoundEndRecord(winnerId, currentPlayers, currentStack) ==
  [winner |-> winnerId, stackTop |-> Top(currentStack).playerId,
   passed |-> [i \in 1..Len(currentPlayers) |-> currentPlayers[i].passedThisRound]]

\* advanceTurn whose fallback advances the index by two.
advanceTurn_fallbackTwo(c, s, currentPlayers, currentStack, currentActiveIndex) ==
  LET lastStackItem == Top(currentStack)
      scan == scanTurn(currentPlayers, lastStackItem, NextIndex(currentActiveIndex), 0)
  IN  IF scan.winnerFound # "none"
        THEN handleRoundEnd(c, [s EXCEPT !.ev.scan = "winner", !.ev.roundEnd =
                  RoundEndRecord(scan.winnerFound, currentPlayers, currentStack)],
                            scan.winnerFound)
      ELSE IF scan.foundNext
        THEN [s EXCEPT !.activePlayerIndex = scan.nextIndex, !.ev.scan = "next"]
      ELSE IF lastStackItem # NoPlay
        THEN handleRoundEnd(c, [s EXCEPT !.ev.scan = "exhausted", !.ev.roundEnd =
                  RoundEndRecord(lastStackItem.playerId, currentPlayers, currentStack)],
                            lastStackItem.playerId)
      ELSE [s EXCEPT !.activePlayerIndex = NextIndex(NextIndex(currentActiveIndex)),
                     !.ev.applied = "fallback", !.ev.scan = "fallback"]

advanceTurn(c, s, currentPlayers, currentStack, currentActiveIndex) ==
  LET lastStackItem == Top(currentStack)
      scan == scanTurn(currentPlayers, lastStackItem, NextIndex(currentActiveIndex), 0)
  IN  IF scan.winnerFound # "none"
        THEN handleRoundEnd(c, [s EXCEPT !.ev.scan = "winner", !.ev.roundEnd =
                  RoundEndRecord(scan.winnerFound, currentPlayers, currentStack)],
                            scan.winnerFound)
      ELSE IF scan.foundNext
        THEN [s EXCEPT !.activePlayerIndex = scan.nextIndex, !.ev.scan = "next"]
      ELSE IF lastStackItem # NoPlay
        THEN handleRoundEnd(c, [s EXCEPT !.ev.scan = "exhausted", !.ev.roundEnd =
                  RoundEndRecord(lastStackItem.playerId, currentPlayers, currentStack)],
                            lastStackItem.playerId)
      ELSE [s EXCEPT !.activePlayerIndex = NextIndex(currentActiveIndex),
                     !.ev.applied = "fallback", !.ev.scan = "fallback"]

handleDealerSubmit(c, s, req) ==
  [s EXCEPT !.roundRequirement = req, !.phase = "PLAYING", !.tableStack = <<>>,
            !.players = ResetPassed(s.players)]

RemoveCards_first(hand, cards) ==
  FilterIdx(hand, {i \in 1..Len(hand) : cards[1].id # hand[i].id}, 1)

\* player.hand.filter(c => !cardIds.includes(c.id))
RemoveCards(hand, cards) ==
  FilterIdx(hand, {i \in 1..Len(hand) :
                     \A k \in 1..Len(cards) : cards[k].id # hand[i].id}, 1)

\* Without the return after handleGameEnd.
executePlay_noReturn(c, s, playerId, cards, currentPlayersState) ==
  LET playerIdx == findIndex(currentPlayersState, playerId)
      newHand == RemoveCards(currentPlayersState[playerIdx].hand, cards)
      updatedPlayers == [currentPlayersState EXCEPT ![playerIdx].hand = newHand]
      updatedStack == Append(c.tableStack, [playerId |-> playerId, cards |-> cards])
      s1 == [s EXCEPT !.players = updatedPlayers, !.tableStack = updatedStack,
                      !.ev.applied = "play", !.ev.actor = playerId, !.ev.cards = cards]
  IN  advanceTurn(c, IF Len(newHand) = 0 THEN handleGameEnd(c, s1, playerId) ELSE s1,
                  updatedPlayers, updatedStack, c.activePlayerIndex)

executePlay(c, s, playerId, cards, currentPlayersState) ==
  LET playerIdx == findIndex(currentPlayersState, playerId)
      newHand == RemoveCards(currentPlayersState[playerIdx].hand, cards)
      updatedPlayers == [currentPlayersState EXCEPT ![playerIdx].hand = newHand]
      updatedStack == Append(c.tableStack, [playerId |-> playerId, cards |-> cards])
      s1 == [s EXCEPT !.players = updatedPlayers, !.tableStack = updatedStack,
                      !.ev.applied = "play", !.ev.actor = playerId, !.ev.cards = cards]
  IN  IF Len(newHand) = 0
        THEN handleGameEnd(c, s1, playerId)
        ELSE advanceTurn(c, s1, updatedPlayers, updatedStack, c.activePlayerIndex)

executePass(c, s, playerId, currentPlayersState) ==
  LET playerIdx == findIndex(currentPlayersState, playerId)
      updatedPlayers == [currentPlayersState EXCEPT ![playerIdx].passedThisRound = TRUE]
      s1 == [s EXCEPT !.players = updatedPlayers,
                      !.ev.applied = "pass", !.ev.actor = playerId]
  IN  advanceTurn(c, s1, updatedPlayers, c.tableStack, c.activePlayerIndex)

\* The log record of a getAIMove call.
SearchRecord(hand, lastMove, req) ==
  [called |-> TRUE, hand |-> hand, last |-> lastMove, req |-> req,
   move |-> getAIMove(hand, lastMove, req)]

\* Stable insertion by level: [...player.hand].sort((a, b) => a.level - b.level)
RECURSIVE InsertByLevel(_, _)
InsertByLevel(x, s) ==
  IF s = <<>> THEN <<x>>
  ELSE IF x.level < Head(s).level THEN <<x>> \o s
  ELSE <<Head(s)>> \o InsertByLevel(x, Tail(s))

RECURSIVE SortByLevel(_)
SortByLevel(s) ==
  IF s = <<>> THEN <<>>
  ELSE InsertByLevel(s[Len(s)], SortByLevel(SubSeq(s, 1, Len(s) - 1)))

handleTurnTimeout(c, s) ==
  LET player == c.players[c.activePlayerIndex]
  IN  IF ~ player.isHuman THEN s
      ELSE IF c.phase = "DEALER_SELECTION"
        THEN LET sortedHand == SortByLevel(player.hand)
             IN  IF Len(sortedHand) = 0 THEN s
                 ELSE LET smallestCard == sortedHand[1]
                          autoReq == [type |-> SINGLE_FIXED,
                                      resourceType |-> smallestCard.type, count |-> 1]
                          s1 == [s EXCEPT !.roundRequirement = autoReq,
                                          !.phase = "PLAYING",
                                          !.tableStack = <<>>,
                                          !.players = ResetPassed(s.players)]
                      IN  executePlay(c, s1, player.id, <<smallestCard>>, c.players)
      ELSE IF c.roundRequirement # NoReq
        THEN LET lastMove == Top(c.tableStack)
                 bestMove == getAIMove(player.hand, lastMove, c.roundRequirement)
                 s1 == [s EXCEPT !.ev.search =
                          SearchRecord(player.hand, lastMove, c.roundRequirement)]
             IN  IF bestMove # NoMove
                   THEN executePlay(c, s1, player.id, bestMove, c.players)
                   ELSE executePass(c, s1, player.id, c.players)
      ELSE executePass(c, s, player.id, c.players)

\* handleHumanPlay applying the selection in PLAYING without validateMove.
handleHumanPlay_noValidate(c, s, selectedCards) ==
  LET player == c.players[1]
  IN  IF c.phase = "DEALER_SELECTION"
        THEN LET inferredReq == inferRequirement(selectedCards)
             IN  IF inferredReq = NoReq
                   THEN [s EXCEPT !.ev.applied = "rejected", !.ev.cards = selectedCards]
                 ELSE executePlay(c,
                        [s EXCEPT !.roundRequirement = inferredReq,
                                  !.phase = "PLAYING",
                                  !.tableStack = <<>>,
                                  !.players = ResetPassed(s.players)],
                        player.id, selectedCards, c.players)
      ELSE executePlay(c, s, player.id, selectedCards, c.players)

\* selectedCards = player.hand.filter(c => selectedCardIds.includes(c.id))
handleHumanPlay(c, s, selectedCards) ==
  LET player == c.players[1]
  IN  IF c.phase = "DEALER_SELECTION"
        THEN LET inferredReq == inferRequirement(selectedCards)
             IN  IF inferredReq = NoReq
                   THEN [s EXCEPT !.ev.applied = "rejected", !.ev.cards = selectedCards]
                 ELSE executePlay(c,
                        [s EXCEPT !.roundRequirement = inferredReq,
                                  !.phase = "PLAYING",
                                  !.tableStack = <<>>,
                                  !.players = ResetPassed(s.players)],
                        player.id, selectedCards, c.players)
      ELSE IF ~ validateMove(selectedCards, Top(c.tableStack), c.roundRequirement).valid
        THEN [s EXCEPT !.ev.applied = "rejected", !.ev.cards = selectedCards]
      ELSE executePlay(c, s, player.id, selectedCards, c.players)

\* setPlayers(prev => ...) of handleHumanMash: card is the card of the render,
\* newCard = mashCard(card).
handleHumanMash(c, s, card, rand) ==
  LET newCard == mashCard(card, rand)
      hand == s.players[1].hand
  IN  [s EXCEPT !.players[1].hand =
                   [i \in 1..Len(hand) |-> IF hand[i].id = card.id THEN newCard ELSE hand[i]],
                !.ev.applied = "mash",
                !.ev.mash = [cardId |-> card.id, from |-> card.level, to |-> newCard.level,
                             rand |-> rand]]

\* Math.random() < 0.40, in hundredths.
CheatThreshold == 40

\* runAITurn: cheatRand, cardIdx, mashRand and dealerRand are its random draws
\* (cardIdx = Math.floor(Math.random() * hand.length), 1-based).
runAITurn(c, s, cheatRand, cardIdx, mashRand, dealerRand) ==
  LET current == c.players[c.activePlayerIndex]
      cheats == cheatRand < CheatThreshold /\ Len(current.hand) > 0
      currentPlayerState ==
        IF cheats
          THEN [current EXCEPT !.hand[cardIdx] = mashCard(current.hand[cardIdx], mashRand)]
          ELSE current
      currentPlayersSnapshot ==
        [c.players EXCEPT ![c.activePlayerIndex] = currentPlayerState]
      s0 == IF cheats
              THEN [s EXCEPT !.ev.mash =
                      [cardId |-> current.hand[cardIdx].id,
                       from |-> current.hand[cardIdx].level,
                       to |-> currentPlayerState.hand[cardIdx].level, rand |-> mashRand]]
              ELSE s
  IN  IF c.phase = "DEALER_SELECTION"
        THEN LET aiReq == getAIDealerRequirement(currentPlayerState.hand, dealerRand)
                 s1 == [handleDealerSubmit(c, s0, aiReq) EXCEPT !.ev.search =
                          SearchRecord(currentPlayerState.hand, NoPlay, aiReq)]
                 move == getAIMove(currentPlayerState.hand, NoPlay, aiReq)
             IN  IF move # NoMove
                   THEN executePlay(c, s1, currentPlayerState.id, move,
                                    currentPlayersSnapshot)
                   ELSE s1
      ELSE IF c.phase = "PLAYING" /\ ~ currentPlayerState.passedThisRound
        THEN IF c.roundRequirement = NoReq THEN s0
             ELSE LET lastMove == Top(c.tableStack)
                  IN  IF lastMove # NoPlay /\ lastMove.playerId = currentPlayerState.id
                        THEN handleRoundEnd(c,
                               [s0 EXCEPT !.ev.roundEnd =
                                  RoundEndRecord(currentPlayerState.id,
                                                 currentPlayersSnapshot, c.tableStack)],
                               currentPlayerState.id)
                      ELSE LET move == getAIMove(currentPlayerState.hand, lastMove,
                                                 c.roundRequirement)
                               s1 == [s0 EXCEPT !.ev.search =
                                        SearchRecord(currentPlayerState.hand, lastMove,
                                                     c.roundRequirement)]
                           IN  IF move # NoMove
                                 THEN executePlay(c, s1, currentPlayerState.id, move,
                                                  currentPlayersSnapshot)
                                 ELSE executePass(c, s1, currentPlayerState.id,
                                                  currentPlayersSnapshot)
      ELSE s0

\* The scan of the initialization effect with val >= maxPoints.
RECURSIVE scanDealer_lastMax(_, _, _, _)
scanDealer_lastMax(newPlayers, idx, maxPoints, startIdx) ==
  IF idx > Len(newPlayers) THEN startIdx
  ELSE IF calculateHandValue(newPlayers[idx].hand) >= maxPoints
    THEN scanDealer_lastMax(newPlayers, idx + 1,
                            calculateHandValue(newPlayers[idx].hand), idx)
    ELSE scanDealer_lastMax(newPlayers, idx + 1, maxPoints, startIdx)

\* The forEach of the initialization effect from player idx on: the first
\* player with the greatest hand value.
RECURSIVE scanDealer(_, _, _, _)
scanDealer(newPlayers, idx, maxPoints, startIdx) ==
  IF idx > Len(newPlayers) THEN startIdx
  ELSE IF calculateHandValue(newPlayers[idx].hand) > maxPoints
    THEN scanDealer(newPlayers, idx + 1, calculateHandValue(newPlayers[idx].hand), idx)
    ELSE scanDealer(newPlayers, idx + 1, maxPoints, startIdx)

initialize(s, draws) ==
  LET newPlayers == createPlayers(draws)
      startIdx == scanDealer(newPlayers, 1, -1, 1)
  IN  [s EXCEPT !.players = newPlayers, !.dealerIndex = startIdx,
                !.activePlayerIndex = startIdx, !.phase = "DEALER_SELECTION"]

(***************************************************************************)
(* Effects: run after the render that commits the cells s, when one of     *)
(* their dependencies differs from the previous render (old).              *)
(***************************************************************************)

\* The timer effect with [phase] as its only dependency.
TimerEffect_phaseOnly(old, s, fired) ==
  IF s.phase # old.phase
    THEN IF s.phase \in {"PLAYING", "DEALER_SELECTION"} /\ Len(s.players) # 0
           THEN [armed |-> TRUE, c |-> Closure(s)]
           ELSE Disarmed
  ELSE IF fired THEN Disarmed
  ELSE timer

\* The timer effect without its cleanup: an interval that is not replaced
\* keeps running.
TimerEffect_noCleanup(old, s, fired) ==
  IF /\ \/ s.activePlayerIndex # old.activePlayerIndex
        \/ s.phase # old.phase
        \/ s.roundNumber # old.roundNumber
     /\ s.phase \in {"PLAYING", "DEALER_SELECTION"} /\ Len(s.players) # 0
    THEN [armed |-> TRUE, c |-> Closure(s)]
  ELSE IF fired THEN Disarmed
  ELSE timer

\* useEffect(..., [activePlayerIndex, phase, roundNumber]): the cleanup clears
\* the interval and the effect starts a new one; an interval that has fired
\* has cleared itself.
TimerEffect(old, s, fired) ==
  IF \/ s.activePlayerIndex # old.activePlayerIndex
     \/ s.phase # old.phase
     \/ s.roundNumber # old.roundNumber
    THEN IF s.phase \in {"PLAYING", "DEALER_SELECTION"} /\ Len(s.players) # 0
           THEN [armed |-> TRUE, c |-> Closure(s)]
           ELSE Disarmed
  ELSE IF fired THEN Disarmed
  ELSE timer

\* useEffect(..., [phase, activePlayerIndex, players, tableStack, roundRequirement])
AIEffect(old, s, fired) ==
  IF Closure(s) # Closure(old)
    THEN IF /\ Len(s.players) # 0
            /\ s.phase \in {"PLAYING", "DEALER_SELECTION"}
            /\ ~ s.players[s.activePlayerIndex].isHuman
           THEN [armed |-> TRUE, c |-> Closure(s)]
           ELSE Disarmed
  ELSE IF fired THEN Disarmed
  ELSE aiTimer

\* The render after a handler has run: the cells take their pending values and
\* the effects run.
Commit(s, timerFired, aiFired) ==
  /\ players' = s.players
  /\ phase' = s.phase
  /\ activePlayerIndex' = s.activePlayerIndex
  /\ dealerIndex' = s.dealerIndex
  /\ roundRequirement' = s.roundRequirement
  /\ tableStack' = s.tableStack
  /\ roundNumber' = s.roundNumber
  /\ winner' = s.winner
  /\ ev' = s.ev
  /\ timer' = TimerEffect(Cells, s, timerFired)
  /\ aiTimer' = AIEffect(Cells, s, aiFired)

(***************************************************************************)
(* Bounds of the model                                                     *)
(***************************************************************************)

\* At most this many level changes by mashing in one game.
MaxMashes == 1

\* The random draws of generateHand that the deal is taken from: per resource
\* type (in the order of ResourceTypes) the levels drawn, the count being their
\* number.  The counts are kept below RESOURCE_CONFIG's [min, max], which deal
\* 11 to 30 cards a hand, so that whole games are explored.
DealDraws ==
  { << <<1, 7>>, <<>>, <<>>, <<>> >>,
    << <<3, 5>>, <<>>, <<5>>, <<>> >> }

\* Draws of Math.random(), in hundredths: a 'better', a 'worse' and a 'same'
\* draw for mashCard, and both sides of the other thresholds.
MashDraws == {14, 19, 20}

CheatDraws == {39, 40}

DealerDraws == {60, 61, 80, 81}

(***************************************************************************)
(* Inputs of the pure functions (the variables pFn .. pCard hold one call  *)
(* of a function of gameLogic.ts: its arguments and its result)            *)
(***************************************************************************)

\* Longest selection / hand given to validateMove and getAIMove.
MaxCards == 3

PureLevels == {1, 2, 3}

PureTypes == {"Soldier", "Tower"}

\* Cards with ids 1..n from a sequence of <<type, level>> pairs.
MkCards(f) == [i \in 1..Len(f) |-> [id |-> i, type |-> f[i][1], level |-> f[i][2]]]

PureCardSeqs ==
  UNION {{MkCards(f) : f \in [1..n -> PureTypes \X PureLevels]} : n \in 0..MaxCards}

PureReqs ==
  {NoReq}
    \cup {[type |-> t, resourceType |-> "Soldier", count |-> n] :
            t \in {SINGLE_FIXED, SINGLE_ASC, MIXED_ASC}, n \in 1..MaxCards}
    \cup {[type |-> MIXED_ASC, resourceType |-> NoType, count |-> n] : n \in 1..MaxCards}

PureLasts ==
  {NoPlay}
    \cup {[playerId |-> "P2", cards |-> MkCards(f)] :
            f \in UNION {[1..n -> {"Soldier"} \X PureLevels] : n \in 1..2}}

\* Hands of a dealer: up to MaxCards cards of the four types.
DealerLevels == {1, 2}

DealerHands ==
  UNION {{MkCards(f) : f \in [1..n -> ResourceTypeSet \X DealerLevels]} : n \in 0..MaxCards}

PureMashCards ==
  {[id |-> 1, type |-> t, level |-> l] : t \in ResourceTypeSet, l \in MinLevel..MaxLevel}

NoCard == [id |-> 0, type |-> NoType, level |-> 0]

PureIdle ==
  /\ pFn = "none" /\ pCards = <<>> /\ pLast = NoPlay /\ pReq = NoReq /\ pRand = 0
  /\ pDone = FALSE /\ pValid = Reject("none") /\ pMove = NoMove /\ pCard = NoCard

GameIdle ==
  /\ players = <<>>
  /\ phase = "INIT"
  /\ activePlayerIndex = 1
  /\ dealerIndex = 1
  /\ roundRequirement = NoReq
  /\ tableStack = <<>>
  /\ roundNumber = 1
  /\ winner = "none"
  /\ mashCooldown = FALSE
  /\ timer = Disarmed
  /\ aiTimer = Disarmed
  /\ ev = Event("none", "none", "none")
  /\ mashes = 0

(***************************************************************************)
(* The game: Init is the state of App after its first render.              *)
(***************************************************************************)

Init == GameIdle /\ PureIdle

\* The initialization effect.
Initialize ==
  /\ phase = "INIT"
  /\ \E draws \in [1..4 -> DealDraws] :
       \E s \in {initialize([Cells EXCEPT !.ev = Event("initialize", "none", phase)], draws)} :
         Commit(s, FALSE, FALSE)
  /\ UNCHANGED <<mashCooldown, mashes, pureVars>>

isHumanTurn == activePlayerIndex = 1 /\ phase \in {"PLAYING", "DEALER_SELECTION"}

\* The play button, with a non-empty selection.
HumanPlay ==
  /\ isHumanTurn
  /\ \E sel \in SUBSET (1..Len(players[1].hand)) \ {{}} :
       \E s \in {handleHumanPlay(Closure(Cells),
                                  [Cells EXCEPT !.ev = Event("handleHumanPlay", "P1", phase)],
                                  FilterIdx(players[1].hand, sel, 1))} :
         Commit(s, FALSE, FALSE)
  /\ UNCHANGED <<mashCooldown, mashes, pureVars>>

\* The pass button.
HumanPass ==
  /\ isHumanTurn
  /\ \E s \in {executePass(Closure(Cells),
                             [Cells EXCEPT !.ev = Event("executePass", "P1", phase)],
                             players[1].id, players)} :
       Commit(s, FALSE, FALSE)
  /\ UNCHANGED <<mashCooldown, mashes, pureVars>>

\* handleKeyDown without the mashCooldown test.
HumanMash_noCooldown ==
  /\ isHumanTurn
  /\ mashes < MaxMashes
  /\ \E i \in 1..Len(players[1].hand), rand \in MashDraws :
       \E s \in {handleHumanMash(Closure(Cells),
                                  [Cells EXCEPT !.ev = Event("handleHumanMash", "P1", phase)],
                                  players[1].hand[i], rand)} :
         /\ Commit(s, FALSE, FALSE)
         /\ mashes' = IF s.ev.mash.to # s.ev.mash.from THEN mashes + 1 ELSE mashes
  /\ mashCooldown' = TRUE
  /\ UNCHANGED pureVars

\* handleKeyDown completing a mash of the one selected card.
HumanMash ==
  /\ isHumanTurn
  /\ ~ mashCooldown
  /\ mashes < MaxMashes
  /\ \E i \in 1..Len(players[1].hand), rand \in MashDraws :
       \E s \in {handleHumanMash(Closure(Cells),
                                  [Cells EXCEPT !.ev = Event("handleHumanMash", "P1", phase)],
                                  players[1].hand[i], rand)} :
         /\ Commit(s, FALSE, FALSE)
         /\ mashes' = IF s.ev.mash.to # s.ev.mash.from THEN mashes + 1 ELSE mashes
  /\ mashCooldown' = TRUE
  /\ UNCHANGED pureVars

\* setTimeout(() => setMashCooldown(false), MASH_COOLDOWN_MS)
CooldownExpire ==
  /\ mashCooldown
  /\ mashCooldown' = FALSE
  /\ UNCHANGED <<players, phase, activePlayerIndex, dealerIndex, roundRequirement,
                 tableStack, roundNumber, winner, timer, aiTimer, ev, mashes, pureVars>>

\* The interval of the timer effect reaching 0.
TurnTimeout ==
  /\ timer.armed
  /\ \E s \in {handleTurnTimeout(timer.c,
                                   [Cells EXCEPT !.ev = Event("handleTurnTimeout",
                                      timer.c.players[timer.c.activePlayerIndex].id,
                                      timer.c.phase)])} :
       Commit(s, TRUE, FALSE)
  /\ UNCHANGED <<mashCooldown, mashes, pureVars>>

\* The timeout of the AI effect firing.
AITurn ==
  /\ aiTimer.armed
  /\ LET c == aiTimer.c
         hand == c.players[c.activePlayerIndex].hand
     IN  \E cheatRand \in CheatDraws :
           /\ cheatRand < CheatThreshold => mashes < MaxMashes
           /\ \E cardIdx \in (IF cheatRand < CheatThreshold /\ Len(hand) > 0
                                THEN 1..Len(hand) ELSE {1}),
                 mashRand \in (IF cheatRand < CheatThreshold THEN MashDraws ELSE {99}),
                 dealerRand \in (IF c.phase = "DEALER_SELECTION" THEN DealerDraws ELSE {0}) :
                \E s \in {runAITurn(c, [Cells EXCEPT !.ev = Event("runAITurn",
                                           c.players[c.activePlayerIndex].id, c.phase)],
                                     cheatRand, cardIdx, mashRand, dealerRand)} :
                  /\ Commit(s, FALSE, TRUE)
                  /\ mashes' = IF s.ev.mash.to # s.ev.mash.from
                                 THEN mashes + 1 ELSE mashes
  /\ UNCHANGED <<mashCooldown, pureVars>>

Next ==
  \/ Initialize
  \/ HumanPlay
  \/ HumanPass
  \/ HumanMash
  \/ CooldownExpire
  \/ TurnTimeout
  \/ AITurn

Spec == Init /\ [][Next]_vars

\* A pending timer goes off.  AITurn is enabled exactly when aiTimer.armed and
\* TurnTimeout exactly when timer.armed; the first disjunct of each definition
\* states that enabledness without evaluating the handler, and is the step of
\* no action of Next (NoBareTimerStep), so that fairness of these actions is
\* fairness of AITurn and of TurnTimeout.
AITimeoutFires ==
  \/ /\ aiTimer.armed
     /\ aiTimer' = Disarmed
     /\ UNCHANGED <<cellVars, timer, pureVars>>
  \/ AITurn

TurnTimerFires ==
  \/ /\ timer.armed
     /\ timer' = Disarmed
     /\ UNCHANGED <<cellVars, aiTimer, pureVars>>
  \/ TurnTimeout

\* The timers that the effects start do fire: the initialization effect runs
\* after the first render, setTimeout(runAITurn, AI_DELAY_MS) and the interval
\* of the timer effect run to their end unless an effect cleanup clears them,
\* and so does the timeout of the mash cooldown.  Nothing is assumed of the
\* human's buttons and keys.
SpecFair ==
  /\ Spec
  /\ WF_vars(Initialize)
  /\ WF_vars(AITimeoutFires)
  /\ WF_vars(TurnTimerFires)
  /\ WF_vars(CooldownExpire)

(***************************************************************************)
(* The pure functions on drawn inputs                                      *)
(***************************************************************************)

PureInit ==
  /\ GameIdle
  /\ pDone = FALSE /\ pValid = Reject("none") /\ pMove = NoMove /\ pCard = NoCard
  /\ \/ /\ pFn \in {"validateMove", "getAIMove"}
        /\ pCards \in PureCardSeqs
        /\ pLast \in PureLasts
        /\ pReq \in PureReqs
        /\ pRand = 0
     \/ /\ pFn = "mashCard"
        /\ pCards \in {<<card>> : card \in PureMashCards}
        /\ pLast = NoPlay
        /\ pReq = NoReq
        /\ pRand \in 0..99
     \/ /\ pFn = "getAIDealerRequirement"
        /\ pCards \in DealerHands
        /\ pLast = NoPlay
        /\ pReq = NoReq
        /\ pRand \in DealerDraws
     \/ /\ pFn = "inferRequirement"
        /\ pCards \in PureCardSeqs
        /\ pLast = NoPlay
        /\ pReq = NoReq
        /\ pRand = 0

CallValidateMove ==
  /\ pFn = "validateMove" /\ ~ pDone
  /\ pValid' = validateMove(pCards, pLast, pReq)
  /\ pDone' = TRUE
  /\ UNCHANGED <<gameVars, pFn, pCards, pLast, pReq, pRand, pMove, pCard>>

CallGetAIMove ==
  /\ pFn = "getAIMove" /\ ~ pDone
  /\ pMove' = getAIMove(pCards, pLast, pReq)
  /\ pDone' = TRUE
  /\ UNCHANGED <<gameVars, pFn, pCards, pLast, pReq, pRand, pValid, pCard>>

CallMashCard ==
  /\ pFn = "mashCard" /\ ~ pDone
  /\ pCard' = mashCard(pCards[1], pRand)
  /\ pDone' = TRUE
  /\ UNCHANGED <<gameVars, pFn, pCards, pLast, pReq, pRand, pValid, pMove>>

\* The dealer branch of runAITurn on a drawn hand: the requirement, then the
\* search for the opening play.
CallGetAIDealerRequirement ==
  /\ pFn = "getAIDealerRequirement" /\ ~ pDone
  /\ pReq' = getAIDealerRequirement(pCards, pRand)
  /\ pMove' = getAIMove(pCards, NoPlay, pReq')
  /\ pDone' = TRUE
  /\ UNCHANGED <<gameVars, pFn, pCards, pLast, pRand, pValid, pCard>>

\* The dealer mode of handleHumanPlay on a drawn selection: the requirement
\* inferred from it, and validateMove on the selection as the opening play.
CallInferRequirement ==
  /\ pFn = "inferRequirement" /\ ~ pDone
  /\ pReq' = inferRequirement(pCards)
  /\ pValid' = validateMove(pCards, NoPlay, pReq')
  /\ pDone' = TRUE
  /\ UNCHANGED <<gameVars, pFn, pCards, pLast, pRand, pMove, pCard>>

PureNext ==
  \/ CallValidateMove
  \/ CallGetAIMove
  \/ CallMashCard
  \/ CallGetAIDealerRequirement
  \/ CallInferRequirement

SpecPure == PureInit /\ [][PureNext]_vars

\* getAIMove on drawn inputs, and in the game.
SearchInit == Init \/ (PureInit /\ pFn = "getAIMove")

SearchNext == (pFn = "none" /\ Next) \/ CallGetAIMove

SpecSearch == SearchInit /\ [][SearchNext]_vars

(***************************************************************************)
(* Properties                                                              *)
(***************************************************************************)

\* The level sum of the cards at the positions S of a sequence.
RECURSIVE SumAt(_, _)
SumAt(cards, S) ==
  IF S = {} THEN 0
  ELSE LET i == CHOOSE x \in S : TRUE IN cards[i].level + SumAt(cards, S \ {i})

TotalLevel(cards) == SumAt(cards, 1..Len(cards))

\* No two cards of the selection have the same level: its levels are strictly
\* increasing once sorted.
DistinctLevels(cards) ==
  \A i, j \in 1..Len(cards) : i # j => cards[i].level # cards[j].level

CountOk(sel, req) == Len(sel) = req.count

TypeOk(sel, req) ==
  req.type \in {SINGLE_FIXED, SINGLE_ASC} =>
    \A i \in 1..Len(sel) : sel[i].type = req.resourceType

AscOk(sel, req) == req.type \in {SINGLE_ASC, MIXED_ASC} => DistinctLevels(sel)

SumOk(sel, last) == last = NoPlay \/ TotalLevel(sel) >= TotalLevel(last.cards)

FirstFailure(sel, last, req) ==
  IF ~ CountOk(sel, req) THEN "wrong count"
  ELSE IF ~ TypeOk(sel, req) THEN "wrong resource type"
  ELSE IF ~ AscOk(sel, req) THEN "not strictly increasing"
  ELSE IF ~ SumOk(sel, last) THEN "below previous total"
  ELSE "ok"

Validated == pFn = "validateMove" /\ pDone /\ pReq # NoReq

\* C1: validateMove accepts exactly when the count, the resource type (single
\* kinds), the strictly increasing levels (ascending kinds) and the total
\* against the previous play all hold, and a rejection carries the reason of
\* the first check that fails, in that order.
C1_ValidateMoveContract ==
  Validated =>
    /\ pValid.valid <=> /\ CountOk(pCards, pReq)
                        /\ TypeOk(pCards, pReq)
                        /\ AscOk(pCards, pReq)
                        /\ SumOk(pCards, pLast)
    /\ pValid.reason = FirstFailure(pCards, pLast, pReq)

\* A selection with the wrong count and a wrong type is rejected for its count.
C1_Witness ==
  /\ Validated
  /\ ~ CountOk(pCards, pReq)
  /\ ~ TypeOk(pCards, pReq)
  /\ pValid = Reject("wrong count")

\* C2: an accepted selection never totals less than the previous play, and a
\* selection that meets the count, type and ascending constraints and ties the
\* previous total is accepted.
C2_MatchOrBeat ==
  (Validated /\ pLast # NoPlay) =>
    /\ pValid.valid => TotalLevel(pCards) >= TotalLevel(pLast.cards)
    /\ ( /\ CountOk(pCards, pReq) /\ TypeOk(pCards, pReq) /\ AscOk(pCards, pReq)
         /\ TotalLevel(pCards) = TotalLevel(pLast.cards) ) => pValid.valid

\* A tie with the previous play that is accepted.
C2_Witness ==
  /\ Validated
  /\ pLast # NoPlay
  /\ TotalLevel(pCards) = TotalLevel(pLast.cards)
  /\ pValid.valid

\* C3: under an ascending requirement an accepted selection has pairwise
\* distinct levels, whatever the order of selection, and a selection with two
\* cards of equal level is rejected.
C3_AscendingDistinct ==
  (Validated /\ pReq.type \in {SINGLE_ASC, MIXED_ASC}) =>
    /\ pValid.valid => DistinctLevels(pCards)
    /\ ~ DistinctLevels(pCards) => ~ pValid.valid

\* An accepted ascending selection whose cards were selected in descending
\* order of level.
C3_Witness ==
  /\ Validated
  /\ pReq.type \in {SINGLE_ASC, MIXED_ASC}
  /\ Len(pCards) >= 2
  /\ pCards[1].level > pCards[2].level
  /\ pValid.valid

\* The selections of k cards of a hand, in hand order.
SubsetsOfSize(hand, k) ==
  {FilterIdx(hand, S, 1) : S \in {T \in SUBSET (1..Len(hand)) : Cardinality(T) = k}}

AcceptedSubsets(hand, last, req) ==
  {m \in SubsetsOfSize(hand, req.count) : validateMove(m, last, req).valid}

\* The move is made of distinct cards of the hand.
FromHand(move, hand) ==
  /\ \A i \in 1..Len(move) : \E j \in 1..Len(hand) : hand[j] = move[i]
  /\ \A i, j \in 1..Len(move) : i # j => move[i].id # move[j].id

Searched == pFn = "getAIMove" /\ pDone /\ pReq # NoReq

\* C4: a selection returned by getAIMove is req.count distinct cards of the
\* hand, validateMove accepts it, and no accepted subset of the hand of that
\* size has a smaller level sum.
C4_CheapestValidMove ==
  (Searched /\ pMove # NoMove) =>
    /\ Len(pMove) = pReq.count
    /\ FromHand(pMove, pCards)
    /\ validateMove(pMove, pLast, pReq).valid
    /\ \A m \in AcceptedSubsets(pCards, pLast, pReq) :
         TotalLevel(m) >= TotalLevel(pMove)

\* A move returned against a previous play when a costlier accepted subset
\* comes earlier in the hand.
C4_Witness ==
  /\ Searched
  /\ pMove # NoMove
  /\ pLast # NoPlay
  /\ \E m \in AcceptedSubsets(pCards, pLast, pReq) :
       /\ TotalLevel(m) > TotalLevel(pMove)
       /\ m[1].id < pMove[1].id

\* C7: the mashed level is min(7, level + 1) for a draw below 0.15,
\* max(1, level - 1) for a draw in [0.15, 0.20) and the level itself from 0.20
\* on; the id and the resource type are kept; the three weights sum to 1.
C7_MashOutcome ==
  /\ MASH_BETTER + MASH_WORSE + MASH_SAME = 100
  /\ (pFn = "mashCard" /\ pDone) =>
       /\ pCard.id = pCards[1].id
       /\ pCard.type = pCards[1].type
       /\ pRand < 15 =>
            pCard.level = (IF pCards[1].level = 7 THEN 7 ELSE pCards[1].level + 1)
       /\ (pRand >= 15 /\ pRand < 20) =>
            pCard.level = (IF pCards[1].level = 1 THEN 1 ELSE pCards[1].level - 1)
       /\ pRand >= 20 => pCard.level = pCards[1].level

\* A level-7 card mashed with a 'better' draw stays at 7.
C7_Witness ==
  /\ pFn = "mashCard" /\ pDone
  /\ pCards[1].level = 7
  /\ pRand < 15
  /\ pCard.level = 7

\* The index of a player id.
IndexOf(id) == CHOOSE i \in 1..4 : PlayerIds[i] = id

\* C5: getAIMove returns no move exactly when validateMove accepts no subset
\* of the hand of size req.count (the type filter loses none), on drawn inputs
\* and on every search of the game; an AI search or a human timeout search
\* that finds none in PLAYING is applied as a pass of that player, whose
\* passedThisRound is set.
C5_PassIffNoValidSubset ==
  /\ Searched => (pMove = NoMove <=> AcceptedSubsets(pCards, pLast, pReq) = {})
  /\ ev.search.called =>
       /\ ev.search.move = NoMove <=>
            AcceptedSubsets(ev.search.hand, ev.search.last, ev.search.req) = {}
       /\ (ev.phase = "PLAYING" /\ ev.search.move = NoMove) =>
            /\ ev.applied \in {"pass", "fallback"}
            /\ \/ players[IndexOf(ev.actor)].passedThisRound
               \/ /\ ev.roundEnd.winner # "none"
                  /\ ev.roundEnd.passed[IndexOf(ev.actor)]

\* An AI whose hand holds enough cards finds no accepted subset against the
\* previous play and passes.
C5_Witness ==
  /\ ev.op = "runAITurn"
  /\ ev.phase = "PLAYING"
  /\ ev.search.called
  /\ ev.search.move = NoMove
  /\ ev.search.last # NoPlay
  /\ SubsetsOfSize(ev.search.hand, ev.search.req.count) # {}
  /\ ev.applied = "pass"
  /\ players[IndexOf(ev.actor)].passedThisRound

HandCards ==
  UNION {{players[i].hand[k] : k \in 1..Len(players[i].hand)} : i \in 1..Len(players)}

StackCards ==
  UNION {{tableStack[n].cards[k] : k \in 1..Len(tableStack[n].cards)} :
           n \in 1..Len(tableStack)}

\* C6: every card in a hand or in a play on the table stack has a level in
\* [1,7].
C6_LevelsInRange == \A card \in HandCards \cup StackCards : card.level \in 1..7

\* A level-7 card of a hand has just been mashed with a 'better' draw.
C6_Witness ==
  /\ ev.mash.from = 7
  /\ ev.mash.rand < 15
  /\ \E card \in HandCards : card.id = ev.mash.cardId /\ card.level = 7

\* The cards of player i's hand, by id.
HandIds(ps, i) == {ps[i].hand[k].id : k \in 1..Len(ps[i].hand)}

CardOf(ps, i, id) == ps[i].hand[CHOOSE k \in 1..Len(ps[i].hand) : ps[i].hand[k].id = id]

\* C8: a card that stays in a hand keeps its resource type, and its level
\* changes only in a step that mashes that card to the new level: no play,
\* pass, timeout action or round transition alters or reverts it.
C8_LevelChangesOnlyByMash ==
  [][phase # "INIT" =>
       \A i \in 1..4 : \A id \in HandIds(players, i) \cap HandIds(players', i) :
         /\ CardOf(players', i, id).type = CardOf(players, i, id).type
         /\ CardOf(players', i, id).level # CardOf(players, i, id).level =>
              /\ ev'.mash.cardId = id
              /\ ev'.mash.to = CardOf(players', i, id).level]_vars

\* C9: card ids are unique across the hands and no card of the table stack is
\* in a hand; after the deal a hand never gains a card, and the cards that
\* leave it are exactly the cards of a play made by its owner in that step.
C9_CardsConserved ==
  /\ [](/\ \A i, j \in 1..Len(players) :
             i # j => HandIds(players, i) \cap HandIds(players, j) = {}
        /\ \A i \in 1..Len(players) : Cardinality(HandIds(players, i)) = Len(players[i].hand)
        /\ {card.id : card \in StackCards} \cap {card.id : card \in HandCards} = {})
  /\ [][phase # "INIT" =>
          \A i \in 1..4 :
            /\ HandIds(players', i) \subseteq HandIds(players, i)
            /\ HandIds(players', i) # HandIds(players, i) =>
                 /\ ev'.applied = "play"
                 /\ ev'.actor = PlayerIds[i]
                 /\ {ev'.cards[k].id : k \in 1..Len(ev'.cards)}
                      = HandIds(players, i) \ HandIds(players', i)]_vars

\* The human's timeout has played from the players array of an earlier render,
\* after a mash; the played cards are in no hand.
C9_Witness ==
  /\ ev.op = "handleTurnTimeout"
  /\ ev.applied = "play"
  /\ mashes > 0
  /\ \A k \in 1..Len(ev.cards) : ev.cards[k].id \notin {card.id : card \in HandCards}

\* C10: when a round ends with winner W, W owns the play on top of the table
\* stack and every other player has passedThisRound at that moment.
C10_RoundWinnerUnbeaten ==
  ev.roundEnd.winner # "none" =>
    /\ ev.roundEnd.stackTop = ev.roundEnd.winner
    /\ \A i \in 1..4 : PlayerIds[i] # ev.roundEnd.winner => ev.roundEnd.passed[i]

\* P2 owns the top play and P3, P4 and P1 have passed, P1 last: P2 wins the
\* round.
C10_Witness ==
  /\ ev.roundEnd.winner = "P2"
  /\ ev.applied = "pass"
  /\ ev.actor = "P1"
  /\ dealerIndex = 2

\* The medals of all players together.
RECURSIVE SumMedals(_, _)
SumMedals(ps, n) == IF n = 0 THEN 0 ELSE ps[n].medals + SumMedals(ps, n - 1)

TotalMedals == SumMedals(players, Len(players))

\* C11: the medals of all players sum to the number of completed rounds,
\* roundNumber - 1; no step takes a medal from a player, and a step completes
\* at most one round.
C11_MedalsCountRounds ==
  /\ [](TotalMedals = roundNumber - 1)
  /\ [][phase # "INIT" =>
          /\ \A i \in 1..4 : players'[i].medals >= players[i].medals
          /\ roundNumber' \in {roundNumber, roundNumber + 1}]_vars

\* Two rounds are complete, the second ended by a human timeout that wrote the
\* players array of an earlier render.
C11_Witness ==
  /\ roundNumber = 3
  /\ TotalMedals = 2
  /\ ev.op = "handleTurnTimeout"
  /\ ev.ended.winner # "none"

SomeHandEmpty == \E i \in 1..Len(players) : players[i].hand = <<>>

\* C12: the phase is GAME_END exactly when some hand is empty, and the step
\* that enters GAME_END is the play that empties the hand of its player, with
\* no turn advancement and no round resolution in it.
C12_GameEndIffEmptyHand ==
  /\ [](phase = "GAME_END" <=> SomeHandEmpty)
  /\ [][(phase # "GAME_END" /\ phase' = "GAME_END") =>
          /\ ev'.applied = "play"
          /\ players[IndexOf(ev'.actor)].hand # <<>>
          /\ players'[IndexOf(ev'.actor)].hand = <<>>
          /\ activePlayerIndex' = activePlayerIndex
          /\ dealerIndex' = dealerIndex
          /\ roundNumber' = roundNumber
          /\ \A i \in 1..4 : players'[i].medals = players[i].medals
          /\ ev'.ended = NoEnded
          /\ ev'.roundEnd = NoRoundEnd]_vars

\* The game has ended in the middle of a round: a play on a non-empty stack
\* emptied a hand while another player had not passed.
C12_Witness ==
  /\ phase = "GAME_END"
  /\ ev.phase = "PLAYING"
  /\ Len(tableStack) >= 2
  /\ \E i \in 1..4 : PlayerIds[i] # ev.actor /\ ~ players[i].passedThisRound

\* The game has ended on the dealer's opening play.
C12_OpeningPlay ==
  /\ phase = "GAME_END"
  /\ ev.phase = "DEALER_SELECTION"
  /\ Len(tableStack) = 1

\* C13: at GAME_END the recorded winner is the player whose play emptied their
\* hand.
C13_EmptiedHandWins ==
  phase = "GAME_END" =>
    /\ ev.gameEnd.called
    /\ winner = ev.gameEnd.winnerId
    /\ players[IndexOf(winner)].hand = <<>>

\* C14: at GAME_END the recorded winner has the greatest medal count of the
\* four players, as the counts stand at the end of the game, and no player
\* with a lower index has as many.
C14_WinnerByMedals ==
  phase = "GAME_END" =>
    /\ winner \in {PlayerIds[i] : i \in 1..4}
    /\ \A j \in 1..4 : players[j].medals <= players[IndexOf(winner)].medals
    /\ \A j \in 1..(IndexOf(winner) - 1) :
         players[j].medals < players[IndexOf(winner)].medals

\* The winner holds a medal awarded in an earlier round, another player ties
\* with it at a higher index, and a third player's play ended the game.
C14_Witness ==
  /\ phase = "GAME_END"
  /\ players[IndexOf(winner)].medals >= 1
  /\ \E j \in (IndexOf(winner) + 1)..4 :
       players[j].medals = players[IndexOf(winner)].medals
  /\ ev.actor # winner

RoundEnded == ev.ended.winner # "none"

\* C15: a round end with winner W, applied to the players array and round
\* number pending in its handler, leaves W with one medal more and every other
\* player's medals as they were, W as dealer and active player, the round
\* number one higher, the table stack empty, the requirement unset, every
\* passedThisRound false, the phase DEALER_SELECTION and every hand as it was.
C15_RoundEndEffect ==
  RoundEnded =>
    LET W == ev.ended.winner
        before == ev.ended.players
    IN  /\ \A i \in 1..4 :
             /\ players[i].medals = before[i].medals + (IF PlayerIds[i] = W THEN 1 ELSE 0)
             /\ players[i].hand = before[i].hand
             /\ players[i].id = before[i].id
             /\ ~ players[i].passedThisRound
        /\ dealerIndex = IndexOf(W)
        /\ activePlayerIndex = IndexOf(W)
        /\ roundNumber = ev.ended.round + 1
        /\ tableStack = <<>>
        /\ roundRequirement = NoReq
        /\ phase = "DEALER_SELECTION"

\* A round won by P3 over players who had passed; P3 was not the dealer.
C15_Witness ==
  /\ RoundEnded
  /\ ev.ended.winner = "P3"
  /\ \E i \in 1..4 : ev.ended.players[i].passedThisRound
  /\ ev.ended.players[3].medals = 0
  /\ players[3].medals = 1

\* The edges INIT -> DEALER_SELECTION -> PLAYING -> ROUND_END ->
\* (DEALER_SELECTION | GAME_END).
PhaseEdges ==
  { <<"INIT", "DEALER_SELECTION">>, <<"DEALER_SELECTION", "PLAYING">>,
    <<"PLAYING", "ROUND_END">>, <<"ROUND_END", "DEALER_SELECTION">>,
    <<"ROUND_END", "GAME_END">> }

\* C16: every step that changes the phase follows one of these edges, so a
\* round end passes through ROUND_END and no step goes from PLAYING to
\* DEALER_SELECTION, from PLAYING to GAME_END or from DEALER_SELECTION to
\* GAME_END.
C16_PhaseEdgesOnly ==
  [][phase' # phase => <<phase, phase'>> \in PhaseEdges]_vars

\* The edges the handlers take: a round end goes from PLAYING to
\* DEALER_SELECTION in the step of the pass or play that ends the round, and a
\* play that empties a hand goes to GAME_END from PLAYING or, as the dealer's
\* opening play, from DEALER_SELECTION.
CodePhaseEdges ==
  { <<"INIT", "DEALER_SELECTION">>, <<"DEALER_SELECTION", "PLAYING">>,
    <<"PLAYING", "DEALER_SELECTION">>, <<"PLAYING", "GAME_END">>,
    <<"DEALER_SELECTION", "GAME_END">> }

\* C16, amended: the phase is never ROUND_END; every step that changes the
\* phase follows one of the edges INIT -> DEALER_SELECTION -> PLAYING ->
\* (DEALER_SELECTION | GAME_END) or DEALER_SELECTION -> GAME_END, and a step
\* completes a round exactly when it goes from PLAYING to DEALER_SELECTION.
C16_PhaseEdgesInCode ==
  /\ [](phase # "ROUND_END")
  /\ [][/\ phase' # phase => <<phase, phase'>> \in CodePhaseEdges
        /\ (phase = "PLAYING" /\ phase' = "DEALER_SELECTION")
             <=> roundNumber' = roundNumber + 1]_vars

\* A round has ended: the step went from PLAYING to DEALER_SELECTION.
C16_RoundEndedDirectly ==
  RoundEnded /\ ev.phase = "PLAYING" /\ phase = "DEALER_SELECTION"

\* C17: while the phase is DEALER_SELECTION the table stack is empty and the
\* round requirement is unset.
C17_DealerSelectionClean ==
  phase = "DEALER_SELECTION" => (tableStack = <<>> /\ roundRequirement = NoReq)

\* DEALER_SELECTION entered by a round end whose round had plays on the stack.
C17_Witness ==
  /\ phase = "DEALER_SELECTION"
  /\ RoundEnded
  /\ ev.roundEnd.stackTop # "none"
  /\ tableStack = <<>>

\* C18: every step from DEALER_SELECTION to PLAYING leaves every player's
\* passedThisRound false and a table stack that is empty or holds only the
\* opening play made in that step.
C18_RoundStartsClean ==
  [][(phase = "DEALER_SELECTION" /\ phase' = "PLAYING") =>
       /\ \A i \in 1..4 : ~ players'[i].passedThisRound
       /\ \/ tableStack' = <<>>
          \/ /\ Len(tableStack') = 1
             /\ ev'.applied = "play"
             /\ tableStack'[1] = [playerId |-> ev'.actor, cards |-> ev'.cards]]_vars

\* The pending delayed action d was scheduled under the current phase and
\* active player.
ScheduledNow(d) ==
  d.armed => (d.c.phase = phase /\ d.c.activePlayerIndex = activePlayerIndex)

\* C19: a pending human-timeout or AI action was scheduled under the current
\* phase and active player (a change of either discards it), and an auto-play
\* or auto-pass of the timeout or an AI action is applied for the player who
\* was active, under the phase that was current, in the state it is applied to.
C19_StaleActionsDiscarded ==
  /\ [](ScheduledNow(timer) /\ ScheduledNow(aiTimer))
  /\ [][(ev' # ev /\ ev'.op \in {"handleTurnTimeout", "runAITurn"}) =>
          /\ ev'.phase = phase
          /\ ev'.actor = players[activePlayerIndex].id]_vars

\* The human has just played and the turn has moved on: the timeout pending
\* now is the one of the new turn.
C19_Witness ==
  /\ ev.op = "handleHumanPlay"
  /\ ev.applied = "play"
  /\ phase = "PLAYING"
  /\ activePlayerIndex # 1
  /\ timer.armed
  /\ timer.c.activePlayerIndex = activePlayerIndex
  /\ aiTimer.armed

\* What the delayed action d will read is what the state holds.
ReadsCurrent(d) ==
  /\ d.c.tableStack = tableStack
  /\ d.c.roundRequirement = roundRequirement
  /\ \A i \in 1..Len(players) : d.c.players[i].hand = players[i].hand

\* The delayed action d acts when it fires: runAITurn always, handleTurnTimeout
\* for the human only.
Acts(d, human) == d.armed /\ d.c.players[d.c.activePlayerIndex].isHuman = human

\* A pending AI action reads the current stack, requirement and hands, and an
\* AI dealer has computed its opening move against the requirement it
\* submitted in that step and the hand of the snapshot it wrote.
AIActionFresh ==
  /\ Acts(aiTimer, FALSE) => ReadsCurrent(aiTimer)
  /\ (ev.op = "runAITurn" /\ ev.phase = "DEALER_SELECTION") =>
       /\ ev.search.called
       /\ ev.search.req = roundRequirement
       /\ ev.search.last = NoPlay
       /\ ev.applied = "play" =>
            RemoveCards(ev.search.hand, ev.cards) = players[IndexOf(ev.actor)].hand

\* A step in which the human timeout applies an auto-play or auto-pass.
TimeoutApplied ==
  /\ ev' # ev
  /\ ev'.op = "handleTurnTimeout"
  /\ ev'.applied \in {"play", "pass", "fallback"}

\* C20: a delayed action that is applied (AI turn, human timeout) reads the
\* table stack, round requirement and hands of the state it is applied to, and
\* an AI dealer computes its opening move against the requirement it submits
\* in that step and the hand of the snapshot it writes.
C20_FreshSnapshots ==
  /\ []AIActionFresh
  /\ [][TimeoutApplied => ReadsCurrent(timer)]_vars

\* The parts of C20 that hold: the AI action, and the stack and requirement
\* read by the human timeout.
FreshExceptTimeoutHand ==
  /\ []AIActionFresh
  /\ [][TimeoutApplied =>
          /\ timer.c.tableStack = tableStack
          /\ timer.c.roundRequirement = roundRequirement]_vars

\* C21: while the mash cooldown is active no step is a human mash (the
\* players array and the log stay as they are if the last entry is a human
\* mash), the cooldown starts only with a human mash, and the step in which
\* it expires changes nothing else, so no attempt is run after it.
C21_NoMashDuringCooldown ==
  /\ [][(mashCooldown /\ ev'.op = "handleHumanMash") => UNCHANGED <<players, ev>>]_vars
  /\ [][(~ mashCooldown /\ mashCooldown') =>
          (ev'.op = "handleHumanMash" /\ ev'.applied = "mash")]_vars
  /\ [][(mashCooldown /\ ~ mashCooldown') => UNCHANGED <<gameVarsButCooldown, pureVars>>]_vars

\* The cooldown is active after a human mash that left the level as it was,
\* it is still the human's turn and the human holds a card.
C21_Witness ==
  /\ mashCooldown
  /\ isHumanTurn
  /\ ev.op = "handleHumanMash"
  /\ ev.mash.from = ev.mash.to
  /\ mashes < MaxMashes
  /\ players[1].hand # <<>>

\* C22: a pass is applied only under the phase PLAYING; in DEALER_SELECTION no
\* pass is accepted.
C22_PassOnlyInPlaying ==
  ev.applied \in {"pass", "fallback"} => ev.phase = "PLAYING"

\* C23: the round requirement goes from unset to set only in a step taken in
\* DEALER_SELECTION by the player at dealerIndex.
C23_DealerSetsRequirement ==
  [][(roundRequirement = NoReq /\ roundRequirement' # NoReq) =>
       /\ phase = "DEALER_SELECTION"
       /\ ev'.actor = players[dealerIndex].id]_vars

\* The phase part of C23 alone.
RequirementSetInDealerSelection ==
  [][(roundRequirement = NoReq /\ roundRequirement' # NoReq) =>
       phase = "DEALER_SELECTION"]_vars

\* A step that applies a play or a pass.
AppliesAction ==
  /\ ev'.applied \in {"play", "pass", "fallback"}
  /\ ~ UNCHANGED gameVarsButCooldown

\* The first half of C24 alone: the actor of an applied play or pass is the
\* active player of the state it is applied in.
AppliedByActivePlayer ==
  [][AppliesAction => ev'.actor = players[activePlayerIndex].id]_vars

\* C24: every applied play or pass is made by the active player and in a phase
\* where it is valid: PLAYING, or for the dealer's opening play
\* DEALER_SELECTION; anything else leaves the state unchanged.
C24_OnlyValidActionsApplied ==
  [][AppliesAction =>
       /\ ev'.actor = players[activePlayerIndex].id
       /\ \/ phase = "PLAYING"
          \/ /\ phase = "DEALER_SELECTION"
             /\ ev'.applied = "play"
             /\ activePlayerIndex = dealerIndex]_vars

\* A step of handleHumanPlay taken in PLAYING.
HumanPlayInPlaying ==
  /\ ev'.op = "handleHumanPlay"
  /\ phase = "PLAYING"
  /\ ~ UNCHANGED gameVarsButCooldown

\* C25: a human selection submitted in PLAYING is applied exactly when it
\* passes the checks against the stack top and the requirement; a selection
\* that fails one changes nothing but the log, and it is still the human's
\* turn afterwards.
C25_RejectedPlayNotApplied ==
  /\ [][HumanPlayInPlaying =>
          IF FirstFailure(ev'.cards, Top(tableStack), roundRequirement) = "ok"
            THEN ev'.applied = "play"
            ELSE /\ ev'.applied = "rejected"
                 /\ UNCHANGED <<players, tableStack, roundRequirement, activePlayerIndex,
                                phase, dealerIndex, roundNumber, winner, timer, aiTimer>>]_vars
  /\ []((ev.op = "handleHumanPlay" /\ ev.applied = "rejected") => isHumanTurn)

\* The human's selection was rejected in PLAYING against a play on the stack.
C25_Witness ==
  /\ ev.op = "handleHumanPlay" /\ ev.phase = "PLAYING" /\ ev.applied = "rejected"
  /\ ev.cards # <<>> /\ tableStack # <<>> /\ roundRequirement # NoReq
  /\ Len(ev.cards) = roundRequirement.count
  /\ isHumanTurn /\ timer.armed

DealerCalled == pFn = "getAIDealerRequirement" /\ pDone

\* C26: the requirement an AI dealer draws for a non-empty hand is met by
\* some selection of that hand as the opening play, for the single-type
\* kinds, and the search finds it.
C26_DealerRequirementSatisfiable ==
  (DealerCalled /\ pCards # <<>> /\ pReq.type \in {SINGLE_FIXED, SINGLE_ASC}) =>
    /\ \E m \in SubsetsOfSize(pCards, pReq.count) : FirstFailure(m, NoPlay, pReq) = "ok"
    /\ pMove # NoMove

\* The consequence of C26 in the game: after an AI's dealer step the opening
\* play is on the stack.
AIDealerOpens ==
  (ev.op = "runAITurn" /\ ev.phase = "DEALER_SELECTION") => tableStack # <<>>

\* The number of cards of type t in the hand.
TypeCount(hand, t) == Cardinality({i \in 1..Len(hand) : hand[i].type = t})

\* The type of highest count, the earliest of SOLDIER, TOWER, FARM, ORE among
\* equals.
MostCommonType(hand) ==
  ResourceTypes[CHOOSE a \in 1..Len(ResourceTypes) :
    \A b \in 1..Len(ResourceTypes) :
      \/ TypeCount(hand, ResourceTypes[b]) < TypeCount(hand, ResourceTypes[a])
      \/ TypeCount(hand, ResourceTypes[b]) = TypeCount(hand, ResourceTypes[a]) /\ a <= b]

\* C27: the decision table of getAIDealerRequirement on the draw r (in
\* hundredths) and the hand: MIXED_ASC of 3 above 0.8 with three cards or
\* more, else SINGLE_ASC of the most common type above 0.6 with two of it or
\* more, else SINGLE_FIXED of the most common type; the single kinds ask for
\* min(count of that type, 2) cards and never fewer than 1; the draws 0.8 and
\* 0.6 themselves take the lower branch.
C27_DealerDecisionTable ==
  DealerCalled =>
    LET bestType == MostCommonType(pCards)
        n == TypeCount(pCards, bestType)
        atMostTwo == IF n < 2 THEN n ELSE 2
    IN  /\ pReq.count >= 1
        /\ pReq.resourceType = bestType
        /\ IF pRand > MixedAscThreshold /\ Len(pCards) >= 3
             THEN pReq.type = MIXED_ASC /\ pReq.count = 3
           ELSE IF pRand > SingleAscThreshold /\ n >= 2
             THEN pReq.type = SINGLE_ASC /\ pReq.count = atMostTwo
           ELSE /\ pReq.type = SINGLE_FIXED
                /\ pReq.count = (IF atMostTwo < 1 THEN 1 ELSE atMostTwo)

\* The draw 0.8 with three cards of three types, one each: a lower branch,
\* with the earliest of the tied types.
C27_Witness ==
  /\ DealerCalled /\ pRand = MixedAscThreshold /\ Len(pCards) = 3
  /\ pReq.type = SINGLE_FIXED /\ pReq.resourceType = "Tower" /\ pReq.count = 1
  /\ TypeCount(pCards, "Tower") = TypeCount(pCards, "Ore")

\* A step in which the turn timer expires.
TimerExpires == ev'.op = "handleTurnTimeout" /\ ~ UNCHANGED gameVarsButCooldown

\* The step resolves the human's turn from the hand given: in
\* DEALER_SELECTION a lowest-level card of it is played under SINGLE_FIXED of
\* its type, count 1; in PLAYING the result of getAIMove for it, the stack top
\* and the requirement is played, or the human passes when there is none.
ResolvesFrom(hand) ==
  IF phase = "DEALER_SELECTION"
    THEN /\ ev'.applied = "play"
         /\ Len(ev'.cards) = 1
         /\ \E k \in 1..Len(hand) : hand[k] = ev'.cards[1]
         /\ \A k \in 1..Len(hand) : hand[k].level >= ev'.cards[1].level
         /\ Top(tableStack') = [playerId |-> "P1", cards |-> ev'.cards]
         /\ phase' = "PLAYING" =>
              roundRequirement' = [type |-> SINGLE_FIXED,
                                   resourceType |-> ev'.cards[1].type, count |-> 1]
    ELSE LET move == getAIMove(hand, Top(tableStack), roundRequirement)
         IN  IF move = NoMove
               THEN ev'.applied \in {"pass", "fallback"} /\ ev'.actor = "P1"
               ELSE ev'.applied = "play" /\ ev'.cards = move /\ ev'.actor = "P1"

\* C28: a timer expiry on the human's turn resolves the turn from the human's
\* current hand; one on an AI's turn changes nothing.
C28_TimeoutResolvesTurn ==
  [][TimerExpires =>
       IF players[activePlayerIndex].isHuman
         THEN ResolvesFrom(players[1].hand)
         ELSE UNCHANGED <<players, phase, activePlayerIndex, dealerIndex,
                          roundRequirement, tableStack, roundNumber, winner>>]_vars

\* What the code does: the turn is resolved from the hand of the render in
\* which the timer was started.
TimeoutResolvesFromSnapshot ==
  [][TimerExpires =>
       IF players[activePlayerIndex].isHuman
         THEN ResolvesFrom(timer.c.players[1].hand)
         ELSE UNCHANGED <<players, phase, activePlayerIndex, dealerIndex,
                          roundRequirement, tableStack, roundNumber, winner>>]_vars

\* C29: in the state the initialization leaves, the dealer is the active
\* player, no hand has a greater level sum than the dealer's and no player of
\* lower index has an equal one; the phase is DEALER_SELECTION, every player
\* has 0 medals and has not passed.
C29_FirstDealer ==
  ev.op = "initialize" =>
    /\ phase = "DEALER_SELECTION"
    /\ activePlayerIndex = dealerIndex
    /\ \A i \in 1..Len(players) :
         /\ TotalLevel(players[i].hand) <= TotalLevel(players[dealerIndex].hand)
         /\ i < dealerIndex =>
              TotalLevel(players[i].hand) < TotalLevel(players[dealerIndex].hand)
         /\ players[i].medals = 0
         /\ ~ players[i].passedThisRound

\* Two players tie for the greatest sum and the one of lower index deals.
C29_Witness ==
  /\ ev.op = "initialize" /\ dealerIndex = 2
  /\ TotalLevel(players[2].hand) = TotalLevel(players[4].hand)
  /\ TotalLevel(players[1].hand) < TotalLevel(players[2].hand)

\* The last step applied a play or a pass and its turn advancement ended
\* neither the round nor the game and did not fall back.
TurnAdvanced ==
  /\ ev.applied \in {"play", "pass"}
  /\ ev.roundEnd = NoRoundEnd
  /\ ~ ev.gameEnd.called

\* The player k places after player i in cyclic order.
After(i, k) == ((i - 1 + k) % PLAYERS_COUNT) + 1

\* C30: after a play or pass by player i whose turn advancement yields neither
\* a round winner nor the fallback, the active player has not passed and is
\* not the owner of the stack top, and every player strictly between i and
\* the active player has passed and is not the owner of the stack top.
C30_NextActivePlayer ==
  TurnAdvanced =>
    LET i == IndexOf(ev.actor)
        owner == Top(tableStack).playerId
    IN  \E d \in 1..(PLAYERS_COUNT - 1) :
          /\ activePlayerIndex = After(i, d)
          /\ ~ players[activePlayerIndex].passedThisRound
          /\ players[activePlayerIndex].id # owner
          /\ \A k \in 1..(d - 1) :
               /\ players[After(i, k)].passedThisRound
               /\ players[After(i, k)].id # owner

\* The advancement skipped a player who had passed.
C30_Witness ==
  /\ TurnAdvanced /\ phase = "PLAYING" /\ tableStack # <<>>
  /\ activePlayerIndex # After(IndexOf(ev.actor), 1)
  /\ players[After(IndexOf(ev.actor), 1)].passedThisRound

AllPassed == \A i \in 1..Len(players) : players[i].passedThisRound

MedalsOf(ps) == [i \in 1..Len(ps) |-> ps[i].medals]

\* C31: a scan of advanceTurn that finds neither a winner nor a next player
\* happens only with an empty stack and all four players passed, never with a
\* play on the stack; the fallback step moves the active index on by one and
\* leaves medals, dealer, round number and phase as they were.
C31_FallbackOnlyWhenAllPassed ==
  /\ [](ev.scan # "exhausted")
  /\ [](ev.scan = "fallback" =>
          /\ tableStack = <<>>
          /\ Len(players) = PLAYERS_COUNT /\ AllPassed
          /\ activePlayerIndex = After(IndexOf(ev.actor), 1))
  /\ [][(ev'.scan = "fallback" /\ ~ UNCHANGED gameVarsButCooldown) =>
          /\ activePlayerIndex' = After(activePlayerIndex, 1)
          /\ MedalsOf(players') = MedalsOf(players)
          /\ UNCHANGED <<dealerIndex, roundNumber, phase, winner, tableStack>>]_vars

\* The fallback was taken by the last of the four players to pass.
C31_Witness ==
  /\ ev.scan = "fallback" /\ ev.applied = "fallback" /\ phase = "PLAYING"
  /\ tableStack = <<>> /\ AllPassed

\* The state the fallback of advanceTurn is taken in.
Degenerate == phase = "PLAYING" /\ tableStack = <<>> /\ Len(players) # 0 /\ AllPassed

\* C32: the state 'PLAYING, empty stack, all four passed' is not reached in a
\* round whose dealer is an AI.
C32_DegenerateNeedsHumanDealer == Degenerate => players[dealerIndex].isHuman

\* The last part of C32 alone: a selection of the human dealer that
\* inferRequirement rejects changes nothing.
RejectedInferenceChangesNothing ==
  [][(ev'.op = "handleHumanPlay" /\ phase = "DEALER_SELECTION"
        /\ ev'.applied = "rejected" /\ ~ UNCHANGED gameVarsButCooldown) =>
       UNCHANGED <<players, phase, activePlayerIndex, dealerIndex, roundRequirement,
                   tableStack, roundNumber, winner, timer, aiTimer>>]_vars

RejectedInference ==
  ev.op = "handleHumanPlay" /\ ev.phase = "DEALER_SELECTION" /\ ev.applied = "rejected"

\* The ids of a selection; the cards of a drawn hand have their positions as
\* ids.
IdsOf(cards) == [i \in 1..Len(cards) |-> cards[i].id]

\* a comes no later than b in lexicographic order (equal lengths).
LexLeq(a, b) ==
  \/ a = b
  \/ \E k \in 1..Len(a) : a[k] < b[k] /\ \A j \in 1..(k - 1) : a[j] = b[j]

\* The accepted subsets of the hand with the level sum of the move returned.
TiedWithMove ==
  {m \in SubsetsOfSize(pCards, pReq.count) :
     FirstFailure(m, pLast, pReq) = "ok" /\ TotalLevel(m) = TotalLevel(pMove)}

\* C33: among the accepted subsets of minimal level sum getAIMove returns the
\* one whose positions in the hand come first in lexicographic order, which is
\* the order the combinations are enumerated in.
C33_FirstOfTiedMoves ==
  (Searched /\ pMove # NoMove) =>
    /\ pMove \in TiedWithMove
    /\ \A m \in TiedWithMove : LexLeq(IdsOf(pMove), IdsOf(m))

\* Two accepted subsets tie for the minimal sum.
C33_Witness ==
  /\ Searched /\ pMove # NoMove /\ pLast # NoPlay
  /\ Cardinality(TiedWithMove) >= 2

SetsRequirement == roundRequirement' # roundRequirement /\ roundRequirement' # NoReq

MixedInferred ==
  /\ ev.op = "handleHumanPlay" /\ ev.phase = "DEALER_SELECTION"
  /\ roundRequirement.type = MIXED_ASC /\ roundRequirement.resourceType = NoType

\* C35: while a requirement is set every play on the stack has
\* requirement.count cards and meets its type and ascending constraints, and
\* the level sums of the plays do not decrease from bottom to top; a step
\* leaves the stack alone, appends one play to it within the round, or empties
\* it as the round number goes up (a dealer's step may append the opening play
\* to the empty stack of the new round).
C35_StackMeetsRequirement ==
  /\ [](roundRequirement # NoReq =>
          \A n \in 1..Len(tableStack) :
            /\ CountOk(tableStack[n].cards, roundRequirement)
            /\ TypeOk(tableStack[n].cards, roundRequirement)
            /\ AscOk(tableStack[n].cards, roundRequirement)
            /\ n > 1 => TotalLevel(tableStack[n - 1].cards) <= TotalLevel(tableStack[n].cards))
  /\ [][\/ tableStack' = tableStack
        \/ /\ roundNumber' = roundNumber
           /\ \E play \in {Top(tableStack')} :
                play # NoPlay /\ tableStack' = Append(tableStack, play)
        \/ /\ roundNumber' = roundNumber + 1
           /\ tableStack' = <<>>]_vars

\* Three plays of rising level sum are on the stack.
C35_Witness ==
  /\ phase = "PLAYING" /\ roundRequirement # NoReq /\ Len(tableStack) >= 3
  /\ TotalLevel(tableStack[1].cards) < TotalLevel(tableStack[Len(tableStack)].cards)

Inferred == pFn = "inferRequirement" /\ pDone

TypesOf(cards) == {cards[i].type : i \in 1..Len(cards)}

\* C36: inferRequirement gives no requirement exactly for the empty selection
\* and for a selection of several types whose levels are not all different;
\* otherwise the requirement has the selection's size as count, its kind is
\* SINGLE_ASC for one type with two or more cards of different levels,
\* SINGLE_FIXED for any other selection of one type and MIXED_ASC for several
\* types, and the selection passes validateMove as the opening play under it.
C36_InferredRequirementAccepts ==
  Inferred =>
    LET n == Len(pCards)
        oneType == Cardinality(TypesOf(pCards)) = 1
        rising == DistinctLevels(pCards)
    IN  /\ pReq = NoReq <=> (n = 0 \/ (~ oneType /\ ~ rising))
        /\ pReq # NoReq =>
             /\ pReq.count = n
             /\ pReq.type = (IF ~ oneType THEN MIXED_ASC
                             ELSE IF n >= 2 /\ rising THEN SINGLE_ASC
                             ELSE SINGLE_FIXED)
             /\ oneType => pReq.resourceType = pCards[1].type
             /\ FirstFailure(pCards, NoPlay, pReq) = "ok"
             /\ pValid.valid

\* One type, two cards of the same level: SINGLE_FIXED, accepted.
C36_Witness ==
  /\ Inferred /\ Len(pCards) >= 2 /\ ~ DistinctLevels(pCards)
  /\ pReq.type = SINGLE_FIXED /\ pValid.valid

\* C37: with the scheduled AI turns and timeouts firing, every game reaches
\* GAME_END.
C37_EventuallyGameEnd == <>(phase = "GAME_END")

\* The safety half of C37: in a state that is not terminal a timer is pending
\* or it is the human's turn.
SomethingPending ==
  phase \in {"PLAYING", "DEALER_SELECTION"} =>
    timer.armed \/ aiTimer.armed \/ isHumanTurn

\* No step of the game changes a timer and nothing else.
NoBareTimerStep ==
  [][(timer' # timer \/ aiTimer' # aiTimer) => ~ UNCHANGED cellVars]_vars

\* C38: in DEALER_SELECTION the active player is the recorded dealer.
C38_DealerIsActive == phase = "DEALER_SELECTION" => activePlayerIndex = dealerIndex

\* C38 at the two places that enter DEALER_SELECTION: the initialization and
\* the end of a round make the dealer the active player.
DealerActiveOnEntry ==
  [][(phase # "DEALER_SELECTION" /\ phase' = "DEALER_SELECTION") =>
       activePlayerIndex' = dealerIndex']_vars

\* C39: once the phase is GAME_END no step changes the phase, a hand, a medal
\* count, a pass flag, the table stack, the winner or any other cell but the
\* mash cooldown, and no timer is pending.
C39_GameEndTerminal ==
  /\ [][phase = "GAME_END" =>
          UNCHANGED <<players, phase, activePlayerIndex, dealerIndex, roundRequirement,
                      tableStack, roundNumber, winner, timer, aiTimer>>]_vars
  /\ [](phase = "GAME_END" => ~ timer.armed /\ ~ aiTimer.armed /\ ~ isHumanTurn)

\* The game has ended by the human's own play, with the mash cooldown still
\* running.
C39_Witness ==
  /\ phase = "GAME_END" /\ mashCooldown /\ winner # "none"
  /\ ev.op = "handleHumanPlay" /\ players[1].hand = <<>>

\* C40: in PLAYING the active player has not passed.
C40_ActiveNotPassed ==
  phase = "PLAYING" => ~ players[activePlayerIndex].passedThisRound

\* The second half of C40 alone: a play is appended to the stack only by a
\* player who is not flagged passed in the state the play is made in.
NoPlayByPassedPlayer ==
  [][(Len(tableStack') = Len(tableStack) + 1 /\ phase = "PLAYING") =>
       ~ players[IndexOf(Top(tableStack').playerId)].passedThisRound]_vars

====
